---- MODULE Spec2Model ----
(***************************************************************************)
(* Verification model of rloewe/climate-dsl (pyOM port).                   *)
(*                                                                         *)
(* Part 1: the conjugate-gradient surface-pressure solver                  *)
(*         climate/pyom/core/external/solve_pressure.py                    *)
(* Part 2: the island perimeter walk                                       *)
(*         climate/pyom/core/external/streamfunction_init.py               *)
(* Part 3: the tridiagonal solver and the topography masks                 *)
(*         climate/boussinesq/numerics.py                                  *)
(* Part 4: the implicit vertical mixing step                               *)
(*         climate/pyom/core/tke.py, climate/pyom/core/idemix/idemix.py    *)
(* Part 5: the coefficients of the surface-pressure operator               *)
(*         make_coeff_surf_press in solve_pressure.py                      *)
(* Part 6: setup and the time loop                                         *)
(*         climate/pyom/pyom.py, climate/pyom/pyom_legacy.py               *)
(* Part 7: the grid set-up, calc_grid in climate/boussinesq/numerics.py    *)
(* Part 8: solve_pressure in solve_pressure.py                             *)
(* Part 9: set_idemix_parameter in climate/pyom/core/idemix/idemix.py      *)
(*                                                                         *)
(* Floating-point quantities of the solver (rsold, rsnew, alpha, step,     *)
(* estimated_error ...) are all used through their magnitude only; they    *)
(* are held as non-negative integers in model units, plus the two IEEE     *)
(* special values Inf and NaN.                                             *)
(***************************************************************************)
EXTENDS Integers, Naturals, Sequences, FiniteSets, TLC

\* ------------------------------------------------------------------ bounds
MaxIter  == 4      \* largest congr_max_iterations tried
MaxEps   == 2      \* largest congr_epsilon tried (model units)
MaxRs    == 2      \* largest ordinary residual norm (model units)
MaxPAp   == 2      \* largest dot(p, Ap)
MaxSmax  == 2      \* largest max-norm of the search direction
MaxCalls == 2      \* number of successive solves
MaxL     == 2      \* largest side of a square island
MaxIsle  == 2      \* largest number of islands
MaxN     == 3      \* largest tridiagonal system
MaxKappa == 2      \* largest diffusivity kappaM / group velocity c0
MaxChoice == 3     \* largest tke_mxl_choice tried
MaxSteps == 3      \* largest number of time steps of a run

\* ------------------------------------------------------------- grid size
nx == 6
ny == 5
nz == 3

\* ------------------------------------------------------- program constants
DivergenceFactor == 100        \* "abs(rsnew) > 100.0 * rs_min"

\* ------------------------------------------------------------ IEEE values
NaN == 0 - 1
Inf == 1000 * 1000

IsNaN(x)    == x = NaN
IsFinite(x) == x # NaN /\ x # Inf

\* comparisons with a NaN operand are false
FLt(a, b) == a # NaN /\ b # NaN /\ a < b
FGt(a, b) == a # NaN /\ b # NaN /\ a > b

FMul(a, b) ==
    IF a = NaN \/ b = NaN THEN NaN
    ELSE IF a = Inf \/ b = Inf
         THEN (IF a = 0 \/ b = 0 THEN NaN ELSE Inf)
         ELSE a * b

FDiv(a, b) ==
    IF a = NaN \/ b = NaN THEN NaN
    ELSE IF b = 0   THEN (IF a = 0 THEN NaN ELSE Inf)
    ELSE IF b = Inf THEN (IF a = Inf THEN NaN ELSE 0)
    ELSE IF a = Inf THEN Inf
    ELSE a \div b

\* Python's builtin min(a, b): b only when b < a
PyMin(a, b) == IF FLt(b, a) THEN b ELSE a

RECURSIVE Pow(_, _)
Pow(b, e) == IF e = 0 THEN 1 ELSE b * Pow(b, e - 1)

\* ------------------------------------------------------------------ state
VARIABLES
    \* settings and inputs of the solver
    enable_cyclic_x, congr_max_iterations, congr_epsilon, operator,
    \* congrad_surf_press.first, number of make_coeff_surf_press calls,
    \* number of congrad_surf_press calls
    first, n_built, calls,
    \* position of the current call and the exception it ended with
    pc, err,
    \* locals of congrad_surf_press
    cf, n, rsold, rs_min, alpha, step, step1, estimated_error,
    \* periodic seam of p, and whether apply_op ever read a stale one
    p_seam, stale_read,
    \* the divergence test of line 165 held in the last iteration
    diverging

cgvars == <<enable_cyclic_x, congr_max_iterations, congr_epsilon, operator,
            first, n_built, calls, pc, err, cf, n, rsold, rs_min, alpha,
            step, step1, estimated_error, p_seam, stale_read, diverging>>

\* state of streamfunction_init
VARIABLES
    \* pyom.nisle, the loop variable isle, position of the routine, and the
    \* exception it ended with
    nisle, isle, wpc, werr,
    \* boundary_map of the island being processed (output of isleperim)
    boundary_map,
    \* locals of the walk: ij, Dir, startPos, n
    ij, Dir, startPos, walk_n,
    \* the slice [:, :, isle] of the five masks
    boundary_mask, line_dir_north_mask, line_dir_south_mask,
    line_dir_east_mask, line_dir_west_mask,
    \* history: the starting direction, ij of line 157 before the cyclic
    \* correction, and the number of edges travelled
    startDir, preshift, steps

wvars == <<nisle, isle, wpc, werr, boundary_map, ij, Dir, startPos, walk_n,
           boundary_mask, line_dir_north_mask, line_dir_south_mask,
           line_dir_east_mask, line_dir_west_mask, startDir, preshift, steps>>

\* state of the routines of numerics.py: one record of locals per routine
VARIABLES
    \* solve_tridiag: arguments, locals, position and exception
    tri,
    \* integrate_tke / integrate_idemix on one water column: the fields
    \* read, the tridiagonal system assembled, and the taup1 fields
    mix,
    \* calc_topo: kbot, the mask and depth fields of the model object,
    \* position and exception
    topo,
    \* make_coeff_surf_press: the fields read and the stencil cf returned
    coef,
    \* run(): the settings checked, the position in setup and in the time
    \* loop, the step counter and the calls made so far
    run,
    \* calc_grid: the spacings read and the grid arrays written
    grid,
    \* solve_pressure: the three time levels of psi, the hydrostatic
    \* pressure, position and exception
    press,
    \* set_idemix_parameter: the array fxa and the values computed from it
    idm

numvars == <<tri, mix, topo, coef, run, grid, press, idm>>

vars == <<cgvars, wvars, numvars>>

\* ---------------------------------------------------- values of the inputs
\* ordinary residual norms, and one large enough to exceed 100 x any other
HugeRs == DivergenceFactor * MaxRs + 1
RsVals == (0..MaxRs) \cup {HugeRs}

\* estimated_error is held as its integer part, saturated at EstCap; EstCap
\* exceeds every congr_epsilon, so each comparison the code makes with
\* congr_epsilon is decided exactly as on the real value
EstCap == 2 * MaxEps + 2
Neg    == 0 - 2                \* a negative estimate

\* -------------------------------------------- collaborators of the solver
\* cyclic.setcyclic_x(p): the seam cells of p are copied from their images
setcyclic_x(seam) == "fresh"

\* dot_sfp(p, Ap) for Ap = apply_op(cf, p): the values the reduction can
\* return.  rs is dot_sfp(res, res) of the residual p was built from: p is
\* finite iff rs is, and p vanishes on the interior iff rs = 0.  For the
\* all-zero operator Ap = 0 * p.  Only values dividing rs exactly are taken,
\* so that alpha = rs / dot is computed without rounding.
DotPAp(op, rs) ==
    IF rs = NaN THEN {NaN}
    ELSE IF rs = Inf THEN (IF op = "zero" THEN {NaN} ELSE {Inf, NaN})
    ELSE IF rs = 0 \/ op = "zero" THEN {0}
    ELSE {d \in 0..MaxPAp : d = 0 \/ rs % d = 0}

\* dot_sfp(res, res) after res -= alpha*Ap
DotResRes(op, rs, a) ==
    IF a = NaN \/ rs = NaN THEN {NaN}
    ELSE IF a = Inf \/ rs = Inf
         THEN (IF op = "zero" THEN {NaN} ELSE {Inf, NaN})
         ELSE RsVals

\* absmax_sfp(p) after p = res + rsnew/rsold*p, NaN-propagating maximum
AbsMaxP(rsnew) ==
    IF rsnew = NaN THEN {NaN}
    ELSE IF rsnew = Inf THEN {Inf, NaN}
    ELSE IF rsnew = 0 THEN {0}
    ELSE 1..MaxSmax

\* ------------------------------------------------------ congrad_surf_press
\* fail(): prints, and raises only when the estimate is NaN
fail(est) == IsNaN(est)

\* lines 161-164: the running minimum
RunningMin(k, rmin, rsnew) ==
    IF k = 1 THEN rsnew
    ELSE IF k > 2 THEN PyMin(rmin, rsnew)
    ELSE rmin

\* lines 163-165: the divergence test is made for n > 2 only
DivergenceTest(k, rmin, rsnew) ==
    k > 2 /\ FGt(rsnew, FMul(DivergenceFactor, rmin))

\* lines 180-181: convergence_rate = exp(log(step/step1)/(n-1)),
\*                estimated_error  = step*convergence_rate/(1-convergence_rate)
\* For 0 < step < step1 the integer part of the estimate is the largest k
\* with k <= step*r/(1-r), r = (step/step1)^(1/(n-1)), that is with
\* step*(step+k)^(n-1) >= step1*k^(n-1).
ExtrapolatedError(st, st1, k) ==
    IF st = NaN \/ st1 = NaN THEN NaN
    ELSE IF st1 = Inf THEN (IF st = Inf THEN NaN ELSE 0)
    ELSE IF st = Inf THEN NaN
    ELSE IF st1 = 0 THEN NaN
    ELSE IF st = 0 THEN 0
    ELSE IF st = st1 THEN Inf
    ELSE IF st > st1 THEN Neg
    ELSE LET ok(e) == st * Pow(st + e, k - 1) >= st1 * Pow(e, k - 1)
         IN  CHOOSE e \in 0..EstCap :
                 ok(e) /\ (e = EstCap \/ ~ok(e + 1))

\* lines 173-181: the estimate after the convergence test of iteration k
EstimateUpdate(k, st, st1, est, eps) ==
    IF k = 1 THEN st
    ELSE IF FLt(st, eps) THEN ExtrapolatedError(st, st1, k)
    ELSE est

\* ConvergenceTest with the raw step tested at every iteration
ConvergenceTest_RawStep(k, st, est, eps) == FLt(st, eps)

\* lines 176 and 179-182: the solve returns as converged
ConvergenceTest(k, st, est, eps) ==
    IF k = 1 THEN FLt(st, eps)
    ELSE FLt(st, eps) /\ FLt(est, eps)

\* NaNCheck that only warns
NaNCheck_WarnOnly(est) == FALSE

\* lines 188-190: the NaN check at the end of an iteration
NaNCheck(est) == IsNaN(est) /\ fail(est)

\* lines 139-142: p[...] = res, then the seam copy when cyclic
InitialDirection(cyclic) ==
    IF cyclic THEN setcyclic_x("stale") ELSE "stale"

\* DirectionUpdate without the seam copy
DirectionUpdate_NoSeamCopy(cyclic) == "stale"

\* lines 154-156: p = res + rsnew/rsold*p, then the seam copy when cyclic
DirectionUpdate(cyclic) ==
    IF cyclic THEN setcyclic_x("stale") ELSE "stale"

\* lines 130-132: the coefficients bound to the local cf in this call
CoefficientsOfCall(isFirst, built) ==
    IF isFirst THEN built + 1 ELSE 0       \* 0: the local cf is unbound

Finished == pc \in {"converged", "exhausted"}

\* lines 125-143: entry of congrad_surf_press up to the loop
Call(rs0) ==
    /\ pc = "idle" \/ Finished
    /\ calls < MaxCalls
    /\ calls' = calls + 1
    /\ first' = FALSE
    /\ n_built' = IF first THEN n_built + 1 ELSE n_built
    /\ cf' = CoefficientsOfCall(first, n_built)
    /\ n' = 0
    /\ diverging' = FALSE
    /\ UNCHANGED <<enable_cyclic_x, congr_max_iterations, congr_epsilon,
                   operator, stale_read>>
    /\ UNCHANGED <<wvars, numvars>>
    /\ IF cf' = 0
       THEN \* line 134: apply_op(cf, ...) with cf unbound
            /\ pc' = "raised"
            /\ err' = "UnboundLocalError"
            /\ UNCHANGED <<rsold, rs_min, alpha, step, step1,
                           estimated_error, p_seam>>
       ELSE /\ pc' = "iterating"
            /\ err' = "none"
            /\ rsold' = rs0
            /\ p_seam' = InitialDirection(enable_cyclic_x)
            /\ rs_min' = 0 /\ alpha' = 0 /\ step' = 0 /\ step1' = 0
            /\ estimated_error' = 0

\* lines 145-190: one pass of the loop body
Iterate(pAp, rsnew, smax) ==
    /\ pc = "iterating"
    /\ n < congr_max_iterations
    /\ pAp \in DotPAp(operator, rsold)
    /\ LET a    == FDiv(rsold, pAp)
           k    == n + 1
           rmin == RunningMin(k, rs_min, rsnew)
           div  == DivergenceTest(k, rmin, rsnew)
           st   == FMul(a, smax)
           st1  == IF k = 1 THEN st ELSE step1
           est  == EstimateUpdate(k, st, st1, estimated_error, congr_epsilon)
       IN  /\ rsnew \in DotResRes(operator, rsold, a)
           /\ smax \in AbsMaxP(rsnew)
           /\ n' = k
           /\ stale_read' = (stale_read \/ (enable_cyclic_x /\ p_seam = "stale"))
           /\ alpha' = a
           /\ rsold' = rsnew
           /\ p_seam' = DirectionUpdate(enable_cyclic_x)
           /\ rs_min' = rmin
           /\ diverging' = div
           /\ IF div /\ fail(estimated_error)
              THEN /\ pc' = "raised" /\ err' = "RuntimeError"
                   /\ UNCHANGED <<step, step1, estimated_error>>
              ELSE /\ step' = st
                   /\ step1' = st1
                   /\ estimated_error' = est
                   /\ IF ConvergenceTest(k, st, est, congr_epsilon)
                      THEN pc' = "converged" /\ err' = "none"
                      ELSE IF NaNCheck(est)
                      THEN pc' = "raised" /\ err' = "RuntimeError"
                      ELSE pc' = "iterating" /\ err' = "none"
    /\ UNCHANGED <<enable_cyclic_x, congr_max_iterations, congr_epsilon,
                   operator, first, n_built, calls, cf>>
    /\ UNCHANGED <<wvars, numvars>>

\* lines 192-193: the loop ran out; fail() decides whether this raises
MaxIterationsExceeded ==
    /\ pc = "iterating"
    /\ n = congr_max_iterations
    /\ IF fail(estimated_error)
       THEN pc' = "raised" /\ err' = "RuntimeError"
       ELSE pc' = "exhausted" /\ err' = "none"
    /\ UNCHANGED <<enable_cyclic_x, congr_max_iterations, congr_epsilon,
                   operator, first, n_built, calls, cf, n, rsold, rs_min,
                   alpha, step, step1, estimated_error, p_seam, stale_read,
                   diverging>>
    /\ UNCHANGED <<wvars, numvars>>

\* state after module import: congrad_surf_press.first = True (line 195)
InitSolver ==
    /\ enable_cyclic_x \in BOOLEAN
    /\ congr_max_iterations \in 1..MaxIter
    /\ congr_epsilon \in 1..MaxEps
    /\ operator \in {"general", "zero"}
    /\ first = TRUE /\ n_built = 0 /\ calls = 0
    /\ pc = "idle" /\ err = "none"
    /\ cf = 0 /\ n = 0 /\ rsold = 0 /\ rs_min = 0 /\ alpha = 0
    /\ step = 0 /\ step1 = 0 /\ estimated_error = 0
    /\ p_seam = "fresh" /\ stale_read = FALSE /\ diverging = FALSE

\* ======================================================================
\* streamfunction_init: start search and perimeter walk
\* ======================================================================
NXA == nx + 4                   \* extent of the arrays in x
NYA == ny + 4                   \* extent of the arrays in y
Cells == (0..(NXA - 1)) \X (0..(NYA - 1))

north == <<0, 1>>
south == <<0, 0 - 1>>
east  == <<1, 0>>
west  == <<0 - 1, 0>>

\* numpy indexing: a negative index counts from the end, an index outside
\* [-size, size) raises IndexError
InRange(c) ==
    /\ c[1] >= 0 - NXA /\ c[1] < NXA
    /\ c[2] >= 0 - NYA /\ c[2] < NYA
Wrap(c) == << IF c[1] < 0 THEN c[1] + NXA ELSE c[1],
              IF c[2] < 0 THEN c[2] + NYA ELSE c[2] >>

\* ----- boundary maps handed over by island.isleperim -------------------
\* a square island of L x L land cells with its ring of perimeter cells
SquareMap(L, x0, y0) ==
    [c \in Cells |->
        IF c[1] \in x0..(x0 + L - 1) /\ c[2] \in y0..(y0 + L - 1) THEN 1
        ELSE IF c[1] \in (x0 - 1)..(x0 + L) /\ c[2] \in (y0 - 1)..(y0 + L)
             THEN 0 - 1
             ELSE 0]

\* lower-left corners of the L x L squares whose ring lies in the interior
\* [2, nx+1] x [2, ny+1]
SquareCorners(L) ==
    {c \in (3..(nx + 1 - L)) \X (3..(ny + 1 - L)) : TRUE}

SquareMaps(L) == {SquareMap(L, c[1], c[2]) : c \in SquareCorners(L)}

SquareMapsOf == [L \in 1..MaxL |-> SquareMaps(L)]

AllSquareMaps == UNION {SquareMapsOf[L] : L \in 1..MaxL}

\* the square at the reference corner with one cell of its land or ring
\* replaced by another value: malformed maps, and islands with a notch
DamagedMaps ==
    UNION { { [SquareMap(L, 3, 3) EXCEPT ![c] = v] :
                c \in ((2..(3 + L)) \X (2..(3 + L))),
                v \in {1, 0 - 1, 0} } : L \in 1..MaxL }

\* maps without any land / perimeter pair
BlankMaps == { [c \in Cells |-> v] : v \in {0, 1} }

\* a square island anywhere in the interior columns of a periodic domain:
\* column i and column i + nx hold the same values, so the island and its
\* ring may straddle the seam
PeriodicSquareMap(L, x0, y0) ==
    LET img(i) == 2 + ((i - 2) % nx)                 \* interior image of i
        land(c) == /\ \E k \in 0..(L - 1) : img(c[1]) = img(x0 + k)
                   /\ c[2] \in y0..(y0 + L - 1)
        ring(c) == /\ \E k \in (0 - 1)..L : img(c[1]) = img(x0 + k)
                   /\ c[2] \in (y0 - 1)..(y0 + L)
    IN  [c \in Cells |-> IF land(c) THEN 1 ELSE IF ring(c) THEN 0 - 1 ELSE 0]

PeriodicSquareMaps ==
    UNION { {PeriodicSquareMap(L, c[1], c[2]) :
                c \in (2..(nx + 1)) \X (3..(ny + 1 - L))} : L \in 1..MaxL }

\* a strip of land across every column of the arrays in row y, with a row
\* of perimeter cells on either side
StripMap(y) ==
    [c \in Cells |-> IF c[2] = y THEN 1
                     ELSE IF c[2] \in {y - 1, y + 1} THEN 0 - 1 ELSE 0]

StripMaps == {StripMap(y) : y \in 3..ny}

\* the strip with its land cell of the first interior column replaced by a
\* perimeter cell
GappedStripMaps == {[StripMap(y) EXCEPT ![<<2, y>>] = 0 - 1] : y \in 3..ny}

Maps == AllSquareMaps \cup DamagedMaps \cup BlankMaps \cup PeriodicSquareMaps
            \cup StripMaps \cup GappedStripMaps

\* ----- _avoid_cyclic_boundaries ----------------------------------------
\* columns scanned by the two calls of lines 85 and 87 (Python 2: nx/2 is
\* the integer quotient)
FirstRange  == [k \in 1..(nx + 1 - (nx \div 2)) |-> (nx \div 2) + k]
SecondRange == [k \in 1..((nx \div 2) + 1) |-> (nx \div 2) + 1 - k]

EastPair(map, i, j) == map[<<i, j>>] = 1 /\ map[<<i, j + 1>>] = 0 - 1
WestPair(map, i, j) == map[<<i, j>>] = 0 - 1 /\ map[<<i, j + 1>>] = 1

NoStart == [cont |-> FALSE, ij |-> <<0, 0>>, Dir |-> <<0, 0>>,
            startPos |-> <<0, 0>>]

\* lines 221-239: first pair met scanning the columns of x_range in order
\* and j = 1 .. ny+1 within a column
avoid_cyclic_boundaries(map, x_range) ==
    LET hit(k) == {j \in 1..(ny + 1) :
                      EastPair(map, x_range[k], j) \/ WestPair(map, x_range[k], j)}
        ks == {k \in DOMAIN x_range : hit(k) # {}}
    IN  IF ks = {} THEN NoStart
        ELSE LET k == CHOOSE a \in ks : \A b \in ks : a <= b
                 i == x_range[k]
                 j == CHOOSE a \in hit(k) : \A b \in hit(k) : a <= b
             IN  IF EastPair(map, i, j)
                 THEN [cont |-> TRUE, ij |-> <<i, j>>, Dir |-> east,
                       startPos |-> <<i - 1, j>>]
                 ELSE [cont |-> TRUE, ij |-> <<i - 1, j>>, Dir |-> west,
                       startPos |-> <<i, j>>]

\* FindStart that scans the western half first
FindStart_WestFirst(map) ==
    LET r2 == avoid_cyclic_boundaries(map, SecondRange)
    IN  IF r2.cont THEN r2 ELSE avoid_cyclic_boundaries(map, FirstRange)

\* lines 83-89: the two-pass search
FindStart(map) ==
    LET r1 == avoid_cyclic_boundaries(map, FirstRange)
    IN  IF r1.cont THEN r1 ELSE avoid_cyclic_boundaries(map, SecondRange)

\* ----- the walk --------------------------------------------------------
\* lines 104-115: the cell ahead and the cell ahead to the right
Ahead(p, d) ==
    IF d = north THEN <<p[1], p[2] + 1>>
    ELSE IF d = west THEN <<p[1], p[2]>>
    ELSE IF d = south THEN <<p[1] + 1, p[2]>>
    ELSE <<p[1] + 1, p[2] + 1>>

AheadRight(p, d) ==
    IF d = north THEN <<p[1] + 1, p[2] + 1>>
    ELSE IF d = west THEN <<p[1], p[2] + 1>>
    ELSE IF d = south THEN <<p[1], p[2]>>
    ELSE <<p[1] + 1, p[2]>>

Lost == <<0, 0>>

\* Turn that goes straight on where it should turn right
Turn_NoRightTurn(d, a, r) ==
    IF a = 0 - 1 /\ r \in {1, 0 - 1} THEN d
    ELSE IF a = 1 /\ r \in {1, 0 - 1} THEN <<0 - d[2], d[1]>>
    ELSE Lost

\* Turn that goes straight on in an unknown situation
Turn_Lenient(d, a, r) ==
    IF a = 0 - 1 /\ r = 0 - 1 THEN <<d[2], 0 - d[1]>>
    ELSE IF a = 1 /\ r \in {1, 0 - 1} THEN <<0 - d[2], d[1]>>
    ELSE d

\* lines 127-144: the direction after the decision, Lost when none of the
\* four cases applies
Turn(d, a, r) ==
    IF a = 0 - 1 /\ r = 1 THEN d
    ELSE IF a = 0 - 1 /\ r = 0 - 1 THEN <<d[2], 0 - d[1]>>
    ELSE IF a = 1 /\ r = 1 THEN <<0 - d[2], d[1]>>
    ELSE IF a = 1 /\ r = 0 - 1 THEN <<0 - d[2], d[1]>>
    ELSE Lost

\* AtStart that also compares the direction
AtStart_WithDirection(p, sp, d, sd) == p = sp /\ d = sd

\* lines 158 and 172: the test that ends the walk
AtStart(p, sp, d, sd) == sp[1] = p[1] /\ sp[2] = p[2]

\* lines 164-171: the cyclic correction of the position
CyclicShift(p, d, cyclic) ==
    LET p1 == IF cyclic /\ d = east /\ p[1] > nx + 1
              THEN <<p[1] - nx, p[2]>> ELSE p
    IN  IF cyclic /\ d = west /\ p1[1] < 2
        THEN <<p1[1] + nx, p1[2]>> ELSE p1

\* the start found on each map (FindStart tabulated over the maps)
StartTable == [m \in Maps |-> FindStart(m)]

WalkUnchangedSolver == UNCHANGED <<congr_max_iterations, congr_epsilon,
    operator, first, n_built, calls, pc, err, cf, n, rsold, rs_min, alpha,
    step, step1, estimated_error, p_seam, stale_read, diverging, numvars>>

\* lines 67-98: the next island: its map, the start search, the first edge
ProcessIsland(map) ==
    /\ wpc = "island"
    /\ isle < nisle
    /\ boundary_map' = map
    /\ LET r == StartTable[map]
       IN  IF ~r.cont
           THEN /\ wpc' = "raised"
                /\ werr' = "found no starting point for line integral"
                /\ ij' = <<0, 0>> /\ Dir' = <<0, 0>> /\ startPos' = <<0, 0>>
                /\ startDir' = <<0, 0>> /\ preshift' = <<0, 0>>
                /\ walk_n' = 0 /\ steps' = 0
                /\ boundary_mask' = {}
                /\ line_dir_east_mask' = {} /\ line_dir_west_mask' = {}
           ELSE /\ wpc' = "walking"
                /\ werr' = "none"
                /\ ij' = r.ij /\ Dir' = r.Dir /\ startPos' = r.startPos
                /\ startDir' = r.Dir /\ preshift' = r.ij
                /\ walk_n' = 1 /\ steps' = 1
                /\ boundary_mask' = {Wrap(r.startPos), Wrap(r.ij)}
                /\ line_dir_east_mask' =
                       IF r.Dir = east THEN {Wrap(r.startPos)} ELSE {}
                /\ line_dir_west_mask' =
                       IF r.Dir = west THEN {Wrap(r.startPos)} ELSE {}
    /\ line_dir_north_mask' = {} /\ line_dir_south_mask' = {}
    /\ UNCHANGED <<nisle, isle, enable_cyclic_x>>
    /\ WalkUnchangedSolver

\* the edge is flagged at the cell the walker moves to
Flag_Ahead(mask, d, which, cell) ==
    IF d = which THEN mask \cup {Wrap(<<cell[1] + d[1], cell[2] + d[2]>>)}
    ELSE mask

\* lines 149-156: the mask of direction `which` after a pass that travels
\* in direction d from `cell`
Flag(mask, d, which, cell) ==
    IF d = which THEN mask \cup {Wrap(cell)} ELSE mask

\* the walker's states: a position in the arrays and one of four directions
WalkerStates == 4 * NXA * NYA

\* lines 100-177: one pass of the while loop; a walk that has taken more
\* passes than the walker has states repeats itself and is followed no
\* further
WalkStep ==
    /\ wpc = "walking"
    /\ steps <= WalkerStates
    /\ LET ijp   == Ahead(ij, Dir)
           ijr   == AheadRight(ij, Dir)
       IN  IF ~InRange(ijp) \/ ~InRange(ijr)
           THEN /\ wpc' = "raised" /\ werr' = "IndexError"
                /\ UNCHANGED <<isle, ij, Dir, walk_n, preshift, steps,
                               boundary_mask, line_dir_north_mask,
                               line_dir_south_mask, line_dir_east_mask,
                               line_dir_west_mask>>
           ELSE
           LET d2 == Turn(Dir, boundary_map[Wrap(ijp)], boundary_map[Wrap(ijr)])
           IN  IF d2 = Lost
               THEN /\ wpc' = "raised"
                    /\ werr' = "unknown situation or lost track"
                    /\ UNCHANGED <<isle, ij, Dir, walk_n, preshift, steps,
                                   boundary_mask, line_dir_north_mask,
                                   line_dir_south_mask, line_dir_east_mask,
                                   line_dir_west_mask>>
               ELSE
               LET p1    == <<ij[1] + d2[1], ij[2] + d2[2]>>
                   p2    == CyclicShift(p1, d2, enable_cyclic_x)
                   stop  == AtStart(p1, startPos, d2, startDir)
                              \/ AtStart(p2, startPos, d2, startDir)
               IN  /\ Dir' = d2
                   /\ line_dir_north_mask' = Flag(line_dir_north_mask, d2, north, ij)
                   /\ line_dir_west_mask' = Flag(line_dir_west_mask, d2, west, ij)
                   /\ line_dir_south_mask' = Flag(line_dir_south_mask, d2, south, ij)
                   /\ line_dir_east_mask' = Flag(line_dir_east_mask, d2, east, ij)
                   /\ preshift' = p1
                   /\ ij' = p2
                   /\ steps' = steps + 1
                   /\ IF stop
                      THEN /\ wpc' = "island" /\ werr' = "none"
                           /\ isle' = isle + 1
                           /\ UNCHANGED <<walk_n, boundary_mask>>
                      ELSE IF ~InRange(p2)
                      THEN /\ wpc' = "raised" /\ werr' = "IndexError"
                           /\ walk_n' = walk_n + 1
                           /\ UNCHANGED <<isle, boundary_mask>>
                      ELSE /\ wpc' = "walking" /\ werr' = "none"
                           /\ walk_n' = walk_n + 1
                           /\ boundary_mask' = boundary_mask \cup {Wrap(p2)}
                           /\ UNCHANGED isle
    /\ UNCHANGED <<nisle, boundary_map, startPos, startDir, enable_cyclic_x>>
    /\ WalkUnchangedSolver

\* ======================================================================
\* numerics.py: solve_tridiag
\* ======================================================================
\* exact arithmetic: a number is a reduced fraction <<p, q>> with q > 0
Abs(x) == IF x < 0 THEN 0 - x ELSE x

RECURSIVE Gcd(_, _)
Gcd(x, y) == IF y = 0 THEN x ELSE Gcd(y, x % y)

Rat(p, q) ==
    LET g0 == Gcd(Abs(p), Abs(q))
        g == IF g0 = 0 THEN 1 ELSE g0
        s == IF q < 0 THEN 0 - 1 ELSE 1
    IN  <<(s * p) \div g, (s * q) \div g>>

RInt(k)    == <<k, 1>>
RAdd(x, y) == Rat(x[1] * y[2] + y[1] * x[2], x[2] * y[2])
RSub(x, y) == Rat(x[1] * y[2] - y[1] * x[2], x[2] * y[2])
RMul(x, y) == Rat(x[1] * y[1], x[2] * y[2])
RDiv(x, y) == Rat(x[1] * y[2], x[2] * y[1])
RLt(x, y)  == x[1] * y[2] < y[1] * x[2]
RNeg(x)    == <<0 - x[1], x[2]>>
RAbs(x)    == <<Abs(x[1]), x[2]>>
Half       == Rat(1, 2)

\* the systems handed to solve_tridiag: entry k+1 of a sequence is element
\* k of the array; every row is diagonally dominant (|b| >= |a| + |c|) and
\* the rows with a zero neighbour strictly so; the systems include
\* a = [0,-1,-1], b = [2,2,2], c = [-1,-1,0], d = [1,0,1]
TriRows(len) == [1..len -> {0 - 1, 0}]

TridiagSystems ==
    UNION { { [n |-> len, a |-> a, b |-> [k \in 1..len |-> 2], c |-> c, d |-> d] :
                a \in TriRows(len), c \in TriRows(len),
                d \in [1..len -> {0, 1}] } : len \in 1..MaxN }

np_zeros(len) == [k \in 1..len |-> RInt(0)]

TridiagIdle == [pc |-> "idle", err |-> "none"]

\* lines 240-245: cp and dp are allocated and their first entries set
tridiag_init ==
    /\ tri.pc = "entered"
    /\ tri' = [tri EXCEPT
                 !.pc = "loop",
                 !.i  = 1,
                 !.cp = [np_zeros(tri.n) EXCEPT
                            ![1] = RDiv(RInt(tri.c[1]), RInt(tri.b[1]))],
                 !.dp = [np_zeros(tri.n) EXCEPT
                            ![1] = RDiv(RInt(tri.d[1]), RInt(tri.b[1]))]]
    /\ UNCHANGED <<cgvars, wvars, mix, topo, coef, run,
                   grid, press, idm>>

\* lines 248-252: the first pass of the forward loop; m and fxa are
\* computed, then line 251 reads the name fxz, which is bound nowhere
tridiag_forward ==
    /\ tri.pc = "loop"
    /\ tri.i < tri.n
    /\ LET m   == RSub(RInt(tri.b[tri.i + 1]),
                       RMul(tri.cp[tri.i], RInt(tri.a[tri.i + 1])))
           fxa == RDiv(RInt(1), m)
       IN  tri' = [tri EXCEPT !.m = m, !.fxa = fxa,
                              !.pc = "raised", !.err = "NameError"]
    /\ UNCHANGED <<cgvars, wvars, mix, topo, coef, run,
                   grid, press, idm>>

\* line 253: the loop is over (n = 1); x is assigned by index but is bound
\* nowhere
tridiag_back ==
    /\ tri.pc = "loop"
    /\ tri.i >= tri.n
    /\ tri' = [tri EXCEPT !.pc = "raised", !.err = "NameError"]
    /\ UNCHANGED <<cgvars, wvars, mix, topo, coef, run,
                   grid, press, idm>>

\* ======================================================================
\* tke.py / idemix.py: the implicit vertical mixing step of one column
\* ======================================================================
Levels == 0..(nz - 1)

\* settings: time steps and closure parameters (positive)
dt_tke    == RInt(1)
alpha_tke == RInt(1)
c_eps     == RInt(1)
dt_tracer == RInt(1)
tau_v     == RInt(1)

\* the columns the routines are run on: kbot = 0 is a land column, the wet
\* columns have their deepest level at kbot - 1
MixColumns ==
    { [kbot |-> kb, dzt |-> [k \in Levels |-> RInt(t)],
       dzw |-> [k \in Levels |-> RInt(w[k])],
       kappaM |-> [k \in Levels |-> RInt(v[k])],
       c0 |-> [k \in Levels |-> RInt(v[k])],
       sqrttke |-> [k \in Levels |-> RInt(IF e > 0 THEN 1 ELSE 0)],
       mxl |-> [k \in Levels |-> RInt(1)],
       alpha_c |-> [k \in Levels |-> RInt(1)],
       E_iw_tau |-> [k \in Levels |-> RInt(e)]] :
         kb \in 0..nz, t \in {1, 2}, w \in [Levels -> {1, 2}],
         v \in [Levels -> 0..MaxKappa], e \in {0 - 1, 0, 1} }

\* tke.py lines 134-135
tke_delta(col) ==
    [k \in Levels |->
        IF k < nz - 1
        THEN RMul(RMul(RMul(RDiv(dt_tke, col.dzt[k + 1]), alpha_tke), Half),
                  RAdd(col.kappaM[k], col.kappaM[k + 1]))
        ELSE RInt(0)]

\* tke.py lines 137-138
tke_a_tri(col) ==
    LET delta == tke_delta(col)
    IN  [k \in Levels |->
            IF k = 0 THEN RInt(0)
            ELSE IF k < nz - 1 THEN RNeg(RDiv(delta[k - 1], col.dzw[k]))
            ELSE RNeg(RDiv(delta[nz - 2], RMul(Half, col.dzw[nz - 1])))]

\* the dissipation term dt_tke * c_eps * sqrttke / mxl of lines 141-145
tke_reaction(col, k) ==
    RDiv(RMul(RMul(dt_tke, c_eps), col.sqrttke[k]), col.mxl[k])

\* tke.py lines 140-143
tke_b_tri(col) ==
    LET delta == tke_delta(col)
    IN  [k \in Levels |->
            IF k = 0 THEN RInt(0)
            ELSE IF k < nz - 1
            THEN RAdd(RAdd(RInt(1),
                           RDiv(RAdd(delta[k], delta[k - 1]), col.dzw[k])),
                      tke_reaction(col, k))
            ELSE RAdd(RAdd(RInt(1),
                           RDiv(delta[nz - 2], RMul(Half, col.dzw[nz - 1]))),
                      tke_reaction(col, nz - 1))]

\* b_tri_edge without the leading 1
tke_b_tri_edge_NoUnit(col) ==
    LET delta == tke_delta(col)
    IN  [k \in Levels |->
            RAdd(RDiv(delta[k], col.dzw[k]), tke_reaction(col, k))]

\* tke.py lines 144-145
tke_b_tri_edge(col) ==
    LET delta == tke_delta(col)
    IN  [k \in Levels |->
            RAdd(RAdd(RInt(1), RDiv(delta[k], col.dzw[k])),
                 tke_reaction(col, k))]

\* tke.py line 147
tke_c_tri(col) ==
    LET delta == tke_delta(col)
    IN  [k \in Levels |->
            IF k < nz - 1 THEN RNeg(RDiv(delta[k], col.dzw[k])) ELSE RInt(0)]

\* idemix.py line 62
maxE_iw(col) ==
    [k \in Levels |->
        IF RLt(col.E_iw_tau[k], RInt(0)) THEN RInt(0) ELSE col.E_iw_tau[k]]

\* idemix.py lines 68-70
idemix_delta(col) ==
    [k \in Levels |->
        IF k < nz - 1
        THEN RMul(RMul(RDiv(RMul(dt_tracer, tau_v), col.dzt[k + 1]), Half),
                  RAdd(col.c0[k], col.c0[k + 1]))
        ELSE RInt(0)]

\* idemix.py lines 71-72
idemix_a_tri(col) ==
    LET delta == idemix_delta(col)
    IN  [k \in Levels |->
            IF k = 0 THEN RInt(0)
            ELSE IF k < nz - 1
            THEN RDiv(RMul(RNeg(delta[k - 1]), col.c0[k - 1]), col.dzw[k])
            ELSE RMul(RDiv(RNeg(delta[nz - 2]), RMul(Half, col.dzw[nz - 1])),
                      col.c0[nz - 2])]

\* the dissipation term dt_tracer * alpha_c * maxE_iw of lines 75-79
idemix_reaction(col, k) ==
    RMul(RMul(dt_tracer, col.alpha_c[k]), maxE_iw(col)[k])

\* idemix.py lines 73-77
idemix_b_tri(col) ==
    LET delta == idemix_delta(col)
    IN  [k \in Levels |->
            IF k = 0 THEN RInt(0)
            ELSE IF k < nz - 1
            THEN RAdd(RAdd(RAdd(RInt(1),
                     RDiv(RMul(delta[k], col.c0[k]), col.dzw[k])),
                     RDiv(RMul(delta[k - 1], col.c0[k]), col.dzw[k])),
                     idemix_reaction(col, k))
            ELSE RAdd(RAdd(RInt(1),
                     RMul(RDiv(delta[nz - 2], RMul(Half, col.dzw[nz - 1])),
                          col.c0[nz - 1])),
                     idemix_reaction(col, nz - 1))]

\* idemix.py lines 78-79
idemix_b_tri_edge(col) ==
    LET delta == idemix_delta(col)
    IN  [k \in Levels |->
            RAdd(RAdd(RInt(1), RMul(RDiv(delta[k], col.dzw[k]), col.c0[k])),
                 idemix_reaction(col, k))]

\* idemix.py line 80
idemix_c_tri(col) ==
    LET delta == idemix_delta(col)
    IN  [k \in Levels |->
            IF k < nz - 1
            THEN RMul(RDiv(RNeg(delta[k]), col.dzw[k]), col.c0[k + 1])
            ELSE RInt(0)]

\* ----- utilities.solve_implicit -----------------------------------------
\* the water mask returned for first wet level ks: true at the levels
\* k >= ks of a column with a wet level; for a column without one (ks
\* outside the levels) either nothing or everything is reported wet
WaterMasks(ks) ==
    IF ks \in Levels THEN { [k \in Levels |-> k >= ks] }
    ELSE { [k \in Levels |-> FALSE], [k \in Levels |-> TRUE] }

AllWaterMasks == UNION { WaterMasks(ks) : ks \in (0 - 1)..(nz - 1) }

\* the pivots of the Thomas sweep that starts at row ks with b_edge
RECURSIVE Pivot(_, _)
Pivot(m, k) ==
    IF k = m.ks THEN m.b_tri_edge[k]
    ELSE RSub(m.b_tri[k],
              RDiv(RMul(m.a_tri[k], m.c_tri[k - 1]), Pivot(m, k - 1)))

\* the solutions returned (the values do not depend on the taup1 field)
Solutions == { [k \in Levels |-> v] : v \in {7, 8} }

\* the value of the taup1 fields before the step
OldValue == 3

\* write-back that overwrites the whole column
WriteBack_Everywhere(water_mask, sol, field) == sol

\* tke.py line 153, idemix.py line 85: np.where(water_mask, sol, field)
WriteBack(water_mask, sol, field) ==
    [k \in Levels |-> IF water_mask[k] THEN sol[k] ELSE field[k]]

MixIdle == [pc |-> "idle"]

\* tke.py lines 126-153
integrate_tke(sol, water_mask) ==
    /\ mix.pc = "ready"
    /\ water_mask \in WaterMasks(mix.col.kbot - 1)
    /\ mix' = [mix EXCEPT
                 !.pc = "tke",
                 !.ks = mix.col.kbot - 1,
                 !.a_tri = tke_a_tri(mix.col),
                 !.b_tri = tke_b_tri(mix.col),
                 !.b_tri_edge = tke_b_tri_edge(mix.col),
                 !.c_tri = tke_c_tri(mix.col),
                 !.sol = sol,
                 !.water_mask = water_mask,
                 !.tke_taup1 = WriteBack(water_mask, sol, mix.tke_taup1)]
    /\ UNCHANGED <<cgvars, wvars, tri, topo, coef, run,
                   grid, press, idm>>

\* idemix.py lines 67-85
integrate_idemix(sol, water_mask) ==
    /\ mix.pc = "ready"
    /\ water_mask \in WaterMasks(mix.col.kbot - 1)
    /\ mix' = [mix EXCEPT
                 !.pc = "idemix",
                 !.ks = mix.col.kbot - 1,
                 !.a_tri = idemix_a_tri(mix.col),
                 !.b_tri = idemix_b_tri(mix.col),
                 !.b_tri_edge = idemix_b_tri_edge(mix.col),
                 !.c_tri = idemix_c_tri(mix.col),
                 !.sol = sol,
                 !.water_mask = water_mask,
                 !.E_iw_taup1 = WriteBack(water_mask, sol, mix.E_iw_taup1)]
    /\ UNCHANGED <<cgvars, wvars, tri, topo, coef, run,
                   grid, press, idm>>

\* ======================================================================
\* numerics.py: calc_topo
\* ======================================================================
\* levels as calc_topo numbers them: 1 is the bottom, nz the surface
TopoLevels == 1..nz

\* bottom indices: two blocks of columns with one kbot each (0 is land)
TopoKbots ==
    { [c \in Cells |-> IF c[1] <= s THEN v1 ELSE v2] :
          s \in 0..(NXA - 1), v1 \in 0..nz, v2 \in 0..nz }

\* pyom.py lines 307-322: the fields as PyOM.allocate leaves them
ZeroField2 == [c \in Cells |-> 0]
ZeroField3 == [c \in Cells |-> [k \in TopoLevels |-> 0]]

TopoIdle == [pc |-> "idle", err |-> "none"]

TopoAllocated(kbot) ==
    [pc |-> "entered", err |-> "none", kbot |-> kbot,
     maskT |-> ZeroField3, maskU |-> ZeroField3, maskV |-> ZeroField3,
     maskZ |-> ZeroField3, maskW |-> ZeroField3,
     ht |-> ZeroField2, hu |-> ZeroField2, hv |-> ZeroField2,
     hur |-> ZeroField2, hvr |-> ZeroField2]

\* line 179: the first statement reads my_blk_j, a name bound neither in
\* the function (its only argument is boussine) nor in the module; the call
\* ends there and no field of the model object has been touched
calc_topo ==
    /\ topo.pc = "entered"
    /\ topo' = [topo EXCEPT !.pc = "raised", !.err = "NameError"]
    /\ UNCHANGED <<cgvars, wvars, tri, mix, coef, run,
                   grid, press, idm>>

\* ======================================================================
\* solve_pressure.py: make_coeff_surf_press
\* ======================================================================
\* pyom.py lines 501-504: the index range of the two loops
is_pe == 1
ie_pe == nx
js_pe == 1
je_pe == ny

\* pyom.py line 19 and the momentum time step
grav   == Rat(981, 100)
dt_mom == RInt(1)

\* grid spacings and metric factors: uniform, or alternating 1, 2, 1, ...
Spacing(kind, idx) == IF kind = "uniform" THEN RInt(1) ELSE RInt(1 + (idx % 2))

\* surface masks: a block of columns and rows of one kind in a domain of
\* the other
SurfaceMasks ==
    { [c \in Cells |-> IF c[1] <= s /\ c[2] <= t THEN v1 ELSE v2] :
          s \in 1..4, t \in 1..4, v1 \in {0, 1}, v2 \in {0, 1} }

CoefInputs ==
    { [maskM |-> m,
       hu |-> [c \in Cells |-> RInt(2)], hv |-> [c \in Cells |-> RInt(2)],
       dxt |-> [i \in 0..(NXA - 1) |-> Spacing(kx, i)],
       dxu |-> [i \in 0..(NXA - 1) |-> Spacing(kx, i + 1)],
       dyt |-> [j \in 0..(NYA - 1) |-> Spacing(ky, j)],
       dyu |-> [j \in 0..(NYA - 1) |-> Spacing(ky, j + 1)],
       cost |-> [j \in 0..(NYA - 1) |-> Spacing(kc, j)],
       cosu |-> [j \in 0..(NYA - 1) |-> Spacing(kc, j + 1)],
       enable_free_surface |-> fs] :
         m \in SurfaceMasks, kx \in {"uniform", "stretched"},
         ky \in {"uniform", "stretched"}, kc \in {"uniform", "stretched"},
         fs \in BOOLEAN }

\* lines 92-93 with 95, 97: the products of the masks of the two cells
mask_east(in, i, j)  == in.maskM[<<i, j>>] * in.maskM[<<i + 1, j>>]
mask_west(in, i, j)  == in.maskM[<<i, j>>] * in.maskM[<<i - 1, j>>]
\* lines 99-100
mask_north(in, i, j) == in.maskM[<<i, j>>] * in.maskM[<<i, j + 1>>]
mask_south(in, i, j) == in.maskM[<<i, j>>] * in.maskM[<<i, j - 1>>]

\* the eastern coupling without the mask of the neighbour
cf_east_Unmasked(in, i, j) ==
    RDiv(RDiv(RDiv(RMul(RInt(in.maskM[<<i, j>>]), in.hu[<<i, j>>]), in.dxu[i]),
              in.dxt[i]), RMul(in.cost[j], in.cost[j]))

\* line 95: cf[i,j,2,1]
cf_east(in, i, j) ==
    RDiv(RDiv(RDiv(RMul(RInt(mask_east(in, i, j)), in.hu[<<i, j>>]), in.dxu[i]),
              in.dxt[i]), RMul(in.cost[j], in.cost[j]))

\* line 97: cf[i,j,0,1]
cf_west(in, i, j) ==
    RDiv(RDiv(RDiv(RMul(RInt(mask_west(in, i, j)), in.hu[<<i - 1, j>>]),
                   in.dxu[i - 1]), in.dxt[i]), RMul(in.cost[j], in.cost[j]))

\* line 102: cf[i,j,1,2]
cf_north(in, i, j) ==
    RDiv(RMul(RDiv(RDiv(RMul(RInt(mask_north(in, i, j)), in.hv[<<i, j>>]),
                        in.dyu[j]), in.dyt[j]), in.cosu[j]), in.cost[j])

\* line 104: cf[i,j,1,0]
cf_south(in, i, j) ==
    RDiv(RMul(RDiv(RDiv(RMul(RInt(mask_south(in, i, j)), in.hv[<<i, j - 1>>]),
                        in.dyu[j - 1]), in.dyt[j]), in.cosu[j - 1]), in.cost[j])

\* lines 106-109: the term added to the centre with a free surface
free_surface_term(in, i, j) ==
    IF in.enable_free_surface
    THEN RMul(RDiv(RInt(0 - 1), RMul(grav, RMul(dt_mom, dt_mom))),
              RInt(in.maskM[<<i, j>>]))
    ELSE RInt(0)

\* the centre without the southern coupling
cf_centre_NoSouth(in, i, j) ==
    RAdd(RNeg(RAdd(RAdd(cf_east(in, i, j), cf_west(in, i, j)),
                   cf_north(in, i, j))),
         free_surface_term(in, i, j))

\* lines 94-104 and 109: cf[i,j,1,1]
cf_centre(in, i, j) ==
    RAdd(RNeg(RAdd(RAdd(cf_east(in, i, j), cf_west(in, i, j)),
                   RAdd(cf_north(in, i, j), cf_south(in, i, j)))),
         free_surface_term(in, i, j))

\* lines 88-110: the stencil; entries the loops do not reach stay zero
make_coeff_surf_press(in) ==
    [c \in Cells |->
        [e \in (0..2) \X (0..2) |->
            IF c[1] \in is_pe..ie_pe /\ c[2] \in js_pe..je_pe
            THEN IF e = <<1, 1>> THEN cf_centre(in, c[1], c[2])
                 ELSE IF e = <<2, 1>> THEN cf_east(in, c[1], c[2])
                 ELSE IF e = <<0, 1>> THEN cf_west(in, c[1], c[2])
                 ELSE IF e = <<1, 2>> THEN cf_north(in, c[1], c[2])
                 ELSE IF e = <<1, 0>> THEN cf_south(in, c[1], c[2])
                 ELSE RInt(0)
            ELSE RInt(0)]]

CoefIdle == [pc |-> "idle"]

\* the call of line 134
BuildCoefficients ==
    /\ coef.pc = "entered"
    /\ coef' = [coef EXCEPT !.pc = "built",
                            !.cf = make_coeff_surf_press(coef.in)]
    /\ UNCHANGED <<cgvars, wvars, tri, mix, topo, run,
                   grid, press, idm>>

\* ======================================================================
\* pyom.py / pyom_legacy.py: setup() and the time loop of run()
\* ======================================================================
RunIdle == [pc |-> "idle", err |-> "none"]

\* pyom.py lines 658-715: setup(); its only check of the settings is the
\* one of lines 713-715, tke_mxl_choice is not looked at; set_forcing is
\* called once (line 690)
setup ==
    /\ run.pc = "start"
    /\ IF run.enable_tke /\ ~run.enable_implicit_vert_friction
       THEN run' = [run EXCEPT !.pc = "raised", !.err = "RuntimeError",
                               !.raised_in = "setup"]
       ELSE run' = [run EXCEPT !.pc = "loop"]
    /\ UNCHANGED <<cgvars, wvars, tri, mix, topo, coef,
                   grid, press, idm>>

\* pyom_legacy.py lines 136-138: the head of the time loop and the
\* per-step set_forcing
step_set_forcing ==
    /\ run.pc = "loop"
    /\ run.itt < run.enditt
    /\ run' = [run EXCEPT !.pc = "forcing_set",
                          !.forcing_calls = run.forcing_calls + 1]
    /\ UNCHANGED <<cgvars, wvars, tri, mix, topo, coef,
                   grid, press, idm>>

\* pyom_legacy.py line 146 with tke.py lines 13-54: set_tke_diffusivities
\* looks at tke_mxl_choice only when enable_tke is set
set_tke_diffusivities ==
    /\ run.pc = "forcing_set"
    /\ IF run.enable_tke /\ run.tke_mxl_choice \notin {1, 2}
       THEN run' = [run EXCEPT !.pc = "raised", !.err = "ValueError",
                               !.raised_in = "set_tke_diffusivities",
                               !.tke_calls = run.tke_calls + 1]
       ELSE run' = [run EXCEPT !.pc = "diffusivities_set",
                               !.tke_calls = run.tke_calls + 1]
    /\ UNCHANGED <<cgvars, wvars, tri, mix, topo, coef,
                   grid, press, idm>>

\* the time levels are shifted without handing the old taum1 to taup1
shift_time_KeepNext(r) ==
    [r EXCEPT !.taum1 = r.tau, !.tau = r.taup1, !.itt = r.itt + 1]

\* pyom_legacy.py lines 204-209: shift time
shift_time(r) ==
    [r EXCEPT !.taum1 = r.tau, !.tau = r.taup1, !.taup1 = r.taum1,
              !.itt = r.itt + 1]

\* the rest of the time step; the time levels are shifted and the step
\* counter advances
step_rest ==
    /\ run.pc = "diffusivities_set"
    /\ run' = shift_time([run EXCEPT !.pc = "loop"])
    /\ UNCHANGED <<cgvars, wvars, tri, mix, topo, coef,
                   grid, press, idm>>

\* pyom_legacy.py line 136: the loop condition fails, run() returns
run_returns ==
    /\ run.pc = "loop"
    /\ run.itt >= run.enditt
    /\ run' = [run EXCEPT !.pc = "returned"]
    /\ UNCHANGED <<cgvars, wvars, tri, mix, topo, coef,
                   grid, press, idm>>

(***************************************************************************)
(* Part 7: calc_grid (boussinesq/numerics.py lines 23-156) and             *)
(* u_centered_grid (lines 4-13).  The arrays are functions over the        *)
(* Python indices 0..n-1 with exact rational entries.                      *)
(***************************************************************************)

\* the largest spacing read from dxt, dyt and dzt
MaxDx == 2

\* pyom.py line 42: the grid is cartesian unless a setup says otherwise
coord_degree == FALSE

\* numerics.py lines 75-76 and 93-94: the origins x_origin and y_origin, set
\* by the caller
Origins == {<<RInt(0), RInt(0)>>, <<RInt(1), RInt(2)>>}

\* the spacings a setup may store at the indices lo..hi of an array
\* allocated by pyom.py lines 287-299 (np.zeros elsewhere): v everywhere
\* but in cell b, where it is w; b = lo - 1 names no cell
SpacingArray(len, lo, hi, v, w, b) ==
    [k \in 0..(len - 1) |->
        IF k \in lo..hi THEN RInt(IF k = b THEN w ELSE v) ELSE RInt(0)]

\* numerics.py lines 4-13
u_centered_grid(dyt, len) ==
    LET yu[k \in 0..(len - 1)] ==
            IF k = 0 THEN RInt(0) ELSE RAdd(yu[k - 1], dyt[k])
        yt[k \in 0..(len - 1)] ==
            IF k = 0 THEN RSub(yu[0], RMul(dyt[0], Half))
            ELSE RSub(RMul(RInt(2), yu[k - 1]), yt[k - 1])
        diff[k \in 0..(len - 2)] == RSub(yt[k + 1], yt[k])
    IN  [yt |-> yt, yu |-> yu,
         dyu |-> [k \in 0..(len - 1) |->
                    IF k < len - 1 THEN diff[k]
                    ELSE RSub(RMul(RInt(2), dyt[len - 1]), diff[len - 2])]]

\* numerics.py lines 52-61 and 64-68: the interior entries 2..m+1 are
\* copied and the two ghost entries on each side are filled, from the
\* periodic image when cyclic and from the nearest interior entry otherwise
GhostExtend(a, m, cyclic) ==
    [k \in 0..(m + 3) |->
        IF k \in 2..(m + 1) THEN a[k]
        ELSE IF cyclic THEN (IF k > m + 1 THEN a[k - m] ELSE a[k + m])
        ELSE IF k > m + 1 THEN a[m + 1] ELSE a[2]]

\* numerics.py lines 75-76, 93-94 and 129-130: a scalar is added to every
\* entry
Shift(a, c) == [k \in DOMAIN a |-> RAdd(a[k], c)]

\* numerics.py lines 80-81 and 83-85: a ghost entry of `a` is overwritten by
\* the entry of `from` at the periodic-image index
CyclicCopy(a, from_hi, from_lo) ==
    [k \in DOMAIN a |->
        IF k > nx + 1 THEN from_hi[k - nx]
        ELSE IF k < 2 THEN from_lo[k + nx]
        ELSE a[k]]

GridIdle  == [pc |-> "idle"]

GridEntered(dxt, dyt, dzt, origin) ==
    [pc |-> "entered", dxt |-> dxt, dyt |-> dyt, dzt |-> dzt,
     x_origin |-> origin[1], y_origin |-> origin[2]]

\* numerics.py lines 152-156: the areas of the boxes
Areas(dxa, metric, dya) ==
    [c \in (0..(nx + 3)) \X (0..(ny + 3)) |->
        RMul(RMul(dxa[c[1]], metric[c[2]]), dya[c[2]])]

\* numerics.py lines 23-156
calc_grid ==
    /\ grid.pc = "entered"
    /\ \E dxt_gl \in {GhostExtend(grid.dxt, nx, enable_cyclic_x)},
          dyt_gl \in {GhostExtend(grid.dyt, ny, FALSE)},
          \* lines 137-145 with coord_degree unset
          cost \in {[j \in 0..(ny + 3) |-> RInt(1)]},
          cosu \in {[j \in 0..(ny + 3) |-> RInt(1)]} :
       \* lines 74, 92 and 127
       \E gx \in {u_centered_grid(dxt_gl, nx + 4)},
          gy \in {u_centered_grid(dyt_gl, ny + 4)},
          gz \in {u_centered_grid(grid.dzt, nz)} :
       \* lines 75-76
       \E xt0 \in {Shift(gx.yt, RSub(grid.x_origin, gx.yu[2]))},
          xu0 \in {Shift(gx.yu, RSub(grid.x_origin, gx.yu[2]))} :
       \* lines 78-85; line 82 takes the upper ghost entries of xu_gl from
       \* xt_gl
       \E dxu_gl \in {IF enable_cyclic_x
                      THEN CyclicCopy(gx.dyu, gx.dyu, gx.dyu) ELSE gx.dyu} :
          grid' = [grid EXCEPT
               !.pc  = "done",
               !.dxt = dxt_gl, !.dyt = dyt_gl] @@
               [xt |-> IF enable_cyclic_x THEN CyclicCopy(xt0, xt0, xt0)
                       ELSE xt0,
                xu |-> IF enable_cyclic_x THEN CyclicCopy(xu0, xt0, xu0)
                       ELSE xu0,
                dxu |-> dxu_gl,
                \* lines 93-94
                yt |-> Shift(gy.yt, RSub(grid.y_origin, gy.yu[2])),
                yu |-> Shift(gy.yu, RSub(grid.y_origin, gy.yu[2])),
                dyu |-> gy.dyu,
                \* lines 129-130
                zt |-> Shift(gz.yt, RNeg(gz.yu[nz - 1])),
                zw |-> Shift(gz.yu, RNeg(gz.yu[nz - 1])),
                dzw |-> gz.dyu,
                cost |-> cost, cosu |-> cosu,
                area_t |-> Areas(dxt_gl, cost, dyt_gl),
                area_u |-> Areas(dxu_gl, cost, dyt_gl),
                area_v |-> Areas(dxt_gl, cosu, gy.dyu)]
    /\ UNCHANGED <<cgvars, wvars, tri, mix, topo, coef, run, press, idm>>

(***************************************************************************)
(* Part 8: solve_pressure (solve_pressure.py lines 13-70), followed on one *)
(* water column for p_hydro and on one interior cell for psi.  The         *)
(* velocities, tendencies and the forcing are not kept.                    *)
(***************************************************************************)

\* pyom.py line 18
rho_0 == RInt(1024)

\* the three placements of the time levels (pyom_legacy.py lines 204-209)
TimeLevelTriples == {<<0, 1, 2>>, <<1, 2, 0>>, <<2, 0, 1>>}

\* psi of the cell at the three time levels when solve_pressure is called
PsiFields == [0..2 -> {0, 1}]

\* rho[i,j,:,tau] of the column in multiples of rho_0: uniform, or larger
\* towards the bottom
RhoColumns ==
    { [k \in Levels |-> RInt(1024)], [k \in Levels |-> RInt(1024 * (nz - k))] }

\* maskT[i,j,:] of the column: wet from level kb upwards, dry for kb = nz
MaskColumns ==
    { [k \in Levels |-> IF k >= kb THEN RInt(1) ELSE RInt(0)] : kb \in 0..nz }

\* p_hydro[i,j,:] when solve_pressure is called: the zeros of pyom.py line
\* 367, or the values an earlier call has left
OldPressures == { [k \in Levels |-> RInt(0)], [k \in Levels |-> RInt(5)] }

\* lines 21-23: the levels the loop `for k in xrange(nz-2, 0, -1)` visits
HydroLoopLevels == 1..(nz - 2)

\* lines 20-23: the hydrostatic pressure of the column
hydrostatic(p_old, rho, maskT, dzw) ==
    LET fxa == RDiv(grav, rho_0)
        p[k \in Levels] ==
            IF k = nz - 1
            THEN RMul(RMul(RMul(RMul(Half, rho[nz - 1]), fxa), dzw[nz - 1]),
                      maskT[nz - 1])
            ELSE IF k \in HydroLoopLevels
            THEN RMul(maskT[k],
                      RAdd(p[k + 1],
                           RMul(RMul(RMul(Half, RAdd(rho[k + 1], rho[k])),
                                     fxa), dzw[k])))
            ELSE p_old[k]
    IN  [k \in Levels |-> p[k]]

\* the first guess is stored at the level tau
FirstGuess_IntoTau(psi, taum1, tau, taup1) ==
    [psi EXCEPT ![tau] = 2 * psi[tau] - psi[taum1]]

\* line 60: psi[:,:,taup1] = 2*psi[:,:,tau] - psi[:,:,taum1]
FirstGuess(psi, taum1, tau, taup1) ==
    [psi EXCEPT ![taup1] = 2 * psi[tau] - psi[taum1]]

\* line 151: psi[:,:,taup1] += alpha*p
FieldUpdate(psi, taup1, d) == [psi EXCEPT ![taup1] = psi[taup1] + d]

\* line 151: the values of alpha*p at the cell
Increments == {0 - 1, 0, 1}

PressIdle == [pc |-> "idle", err |-> "none"]

\* psi_entry is psi as it was when solve_pressure was called
PressEntered(tl, psi, rho, maskT, p_old, free_surface) ==
    [pc |-> "entered", err |-> "none",
     taum1 |-> tl[1], tau |-> tl[2], taup1 |-> tl[3],
     psi |-> psi, psi_entry |-> psi,
     rho |-> rho, maskT |-> maskT, dzw |-> [k \in Levels |-> RInt(1)],
     p_hydro |-> p_old, enable_free_surface |-> free_surface, n |-> 0]

\* lines 19-23: hydrostatic pressure
hydrostatic_pressure ==
    /\ press.pc = "entered"
    /\ press' = [press EXCEPT
           !.pc = "hydro",
           !.p_hydro = hydrostatic(press.p_hydro, press.rho, press.maskT,
                                   press.dzw)]
    /\ UNCHANGED <<cgvars, wvars, tri, mix, topo, coef, run, grid, idm>>

\* lines 25-60: tendencies, time step, forcing and first guess; line 58
\* reads maskT[i,j,nz], one past the last level, when the free surface is
\* enabled
first_guess ==
    /\ press.pc = "hydro"
    /\ IF press.enable_free_surface
       THEN press' = [press EXCEPT !.pc = "raised", !.err = "IndexError"]
       ELSE press' = [press EXCEPT
                !.pc = "guessed",
                !.psi = FirstGuess(press.psi, press.taum1, press.tau,
                                   press.taup1)]
    /\ UNCHANGED <<cgvars, wvars, tri, mix, topo, coef, run, grid, idm>>

\* line 62: congrad_surf_press(forc, congr_itts, pyom) against the
\* parameters (pyom, forc, iterations) of line 113.  Passed through as
\* written, line 125 reads forc.nx and raises AttributeError; a later call
\* finds cf unbound (line 134); otherwise the loop of line 145 is entered
call_congrad(outcome) ==
    /\ press.pc = "guessed"
    /\ outcome \in {"none", "AttributeError", "UnboundLocalError"}
    /\ press' = [press EXCEPT
           !.pc = IF outcome = "none" THEN "solving" ELSE "raised",
           !.err = outcome]
    /\ UNCHANGED <<cgvars, wvars, tri, mix, topo, coef, run, grid, idm>>

\* lines 145-193: one pass of the loop as psi sees it; the pass ends the
\* solve (converged, or out of iterations with fail() returning), raises
\* (fail() on a NaN estimate) or is followed by another pass
congrad_pass(d, outcome) ==
    /\ press.pc = "solving"
    /\ press.n < MaxIter
    /\ d \in Increments
    /\ outcome \in {"solving", "solved", "raised"}
    /\ outcome = "solving" => press.n + 1 < MaxIter
    /\ press' = [press EXCEPT
           !.pc = outcome,
           !.err = IF outcome = "raised" THEN "RuntimeError" ELSE "none",
           !.n = press.n + 1,
           !.psi = FieldUpdate(press.psi, press.taup1, d)]
    /\ UNCHANGED <<cgvars, wvars, tri, mix, topo, coef, run, grid, idm>>

\* lines 63-70: the seam copy of psi[:,:,taup1] (the cell is an interior
\* one) and the removal of the surface pressure gradient from u and v
remove_pressure_gradient ==
    /\ press.pc = "solved"
    /\ press' = [press EXCEPT !.pc = "returned"]
    /\ UNCHANGED <<cgvars, wvars, tri, mix, topo, coef, run, grid, idm>>

\* state of numerics.py, of the mixing step and of run() before any routine
\* is entered
(***************************************************************************)
(* Part 9: set_idemix_parameter (idemix.py lines 5-15) with gofx2 (lines   *)
(* 134-141) and hofx1 (lines 143-148), followed on one column.  What is    *)
(* kept of each function is the array it is evaluated on.                  *)
(***************************************************************************)

\* the largest sqrt(max(0, Nsqr)) / (1e-22 + |coriolis_t|) of a level
MaxFxa == 4

\* line 11: the values of fxa on the column
FxaColumns == [Levels -> 0..MaxFxa]

\* gofx2 that clamps a copy of its argument and leaves the caller's array
gofx2_array_Local(x) == x

\* line 138: x[x < 3.] = 3., in place: the caller's array after the call
gofx2_array(x) == [k \in DOMAIN x |-> IF x[k] < 3 THEN 3 ELSE x[k]]

\* lines 139 and 148: 1/x lies in the domain of arcsin and the quotient
\* 1 - (2/pi)*arcsin(1/x) is not zero
ArcsinTermDefined(x) == \A k \in DOMAIN x : x[k] > 1

\* line 148: the factor (x-1)/(x+1) has a nonzero denominator
hofx1_defined(x) ==
    ArcsinTermDefined(x) /\ \A k \in DOMAIN x : x[k] + 1 # 0

IdmIdle   == [pc |-> "idle"]

IdmEntered(f) == [pc |-> "entered", ratio |-> f]

\* lines 9-12: bN0, fxa and cstar
idemix_fxa ==
    /\ idm.pc = "entered"
    /\ idm' = [pc |-> "fxa", ratio |-> idm.ratio, fxa |-> idm.ratio]
    /\ UNCHANGED <<cgvars, wvars, tri, mix, topo, coef, run, grid, press>>

\* line 13: c0 from gofx2(fxa); g_arg is the array line 139 works on
idemix_c0 ==
    /\ idm.pc = "fxa"
    /\ idm' = [idm EXCEPT !.pc = "c0", !.fxa = gofx2_array(idm.fxa)] @@
              [g_arg |-> [k \in Levels |->
                             IF idm.fxa[k] < 3 THEN 3 ELSE idm.fxa[k]]]
    /\ UNCHANGED <<cgvars, wvars, tri, mix, topo, coef, run, grid, press>>

\* line 14: v0 from hofx1(fxa); h_arg is the array line 148 works on
idemix_v0 ==
    /\ idm.pc = "c0"
    /\ idm' = [idm EXCEPT !.pc = "v0"] @@
              [h_arg |-> idm.fxa, h_defined |-> hofx1_defined(idm.fxa)]
    /\ UNCHANGED <<cgvars, wvars, tri, mix, topo, coef, run, grid, press>>

\* line 15: alpha_c from arccosh(maximum(1, fxa))
idemix_alpha_c ==
    /\ idm.pc = "v0"
    /\ idm' = [idm EXCEPT !.pc = "done"] @@
              [alpha_arg |-> [k \in Levels |->
                                 IF idm.fxa[k] < 1 THEN 1 ELSE idm.fxa[k]]]
    /\ UNCHANGED <<cgvars, wvars, tri, mix, topo, coef, run, grid, press>>


\* the routines of the later parts before they are entered
LaterIdle == grid = GridIdle /\ press = PressIdle /\ idm = IdmIdle

NumIdle ==
    /\ tri = TridiagIdle /\ mix = MixIdle /\ topo = TopoIdle
    /\ coef = CoefIdle /\ run = RunIdle /\ LaterIdle

\* ======================================================================
\* specifications
\* ======================================================================
\* the walker before streamfunction_init is entered
WalkerIdle ==
    /\ nisle = 0 /\ isle = 0 /\ wpc = "idle" /\ werr = "none"
    /\ boundary_map = [c \in Cells |-> 0]
    /\ ij = <<0, 0>> /\ Dir = <<0, 0>> /\ startPos = <<0, 0>>
    /\ startDir = <<0, 0>> /\ preshift = <<0, 0>>
    /\ walk_n = 0 /\ steps = 0
    /\ boundary_mask = {} /\ line_dir_north_mask = {}
    /\ line_dir_south_mask = {} /\ line_dir_east_mask = {}
    /\ line_dir_west_mask = {}

\* the solver before its first call, with fixed settings
SolverIdle ==
    /\ congr_max_iterations = 1 /\ congr_epsilon = 1
    /\ operator = "general"
    /\ first = TRUE /\ n_built = 0 /\ calls = 0
    /\ pc = "idle" /\ err = "none"
    /\ cf = 0 /\ n = 0 /\ rsold = 0 /\ rs_min = 0 /\ alpha = 0
    /\ step = 0 /\ step1 = 0 /\ estimated_error = 0
    /\ p_seam = "fresh" /\ stale_read = FALSE /\ diverging = FALSE

\* lines 51-67: the masks are allocated, the loop over the islands starts
InitWalk ==
    /\ SolverIdle
    /\ NumIdle
    /\ enable_cyclic_x \in BOOLEAN
    /\ nisle \in 1..MaxIsle
    /\ isle = 0 /\ wpc = "island" /\ werr = "none"
    /\ boundary_map = [c \in Cells |-> 0]
    /\ ij = <<0, 0>> /\ Dir = <<0, 0>> /\ startPos = <<0, 0>>
    /\ startDir = <<0, 0>> /\ preshift = <<0, 0>>
    /\ walk_n = 0 /\ steps = 0
    /\ boundary_mask = {} /\ line_dir_north_mask = {}
    /\ line_dir_south_mask = {} /\ line_dir_east_mask = {}
    /\ line_dir_west_mask = {}

NextWalk ==
    \/ \E map \in Maps : ProcessIsland(map)
    \/ WalkStep

SpecWalk == InitWalk /\ [][NextWalk]_vars

\* ------------------------------------------- the solver's specification
Init == InitSolver /\ WalkerIdle /\ NumIdle

Next ==
    \/ \E rs0 \in 0..MaxRs : Call(rs0)
    \/ \E pAp \in (0..MaxPAp) \cup {Inf, NaN},
          rsnew \in RsVals \cup {Inf, NaN},
          smax \in (0..MaxSmax) \cup {Inf, NaN} : Iterate(pAp, rsnew, smax)
    \/ MaxIterationsExceeded

Spec == Init /\ [][Next]_vars

\* ------------------------------------------ solve_tridiag's specification
InitTridiag ==
    /\ SolverIdle /\ WalkerIdle /\ enable_cyclic_x = FALSE
    /\ mix = MixIdle /\ topo = TopoIdle /\ coef = CoefIdle
    /\ run = RunIdle /\ LaterIdle
    /\ \E sys \in TridiagSystems :
          tri = [pc |-> "entered", err |-> "none", n |-> sys.n,
                 a |-> sys.a, b |-> sys.b, c |-> sys.c, d |-> sys.d,
                 i |-> 0, cp |-> <<>>, dp |-> <<>>,
                 m |-> RInt(0), fxa |-> RInt(0)]

NextTridiag == tridiag_init \/ tridiag_forward \/ tridiag_back

SpecTridiag == InitTridiag /\ [][NextTridiag]_vars

\* ------------------------------------- the mixing step's specification
InitMix ==
    /\ SolverIdle /\ WalkerIdle /\ enable_cyclic_x = FALSE
    /\ tri = TridiagIdle /\ topo = TopoIdle /\ coef = CoefIdle
    /\ run = RunIdle /\ LaterIdle
    /\ \E col \in MixColumns :
          mix = [pc |-> "ready", col |-> col, ks |-> 0,
                 a_tri |-> <<>>, b_tri |-> <<>>, b_tri_edge |-> <<>>,
                 c_tri |-> <<>>, sol |-> <<>>, water_mask |-> <<>>,
                 tke_taup1 |-> [k \in Levels |-> OldValue],
                 E_iw_taup1 |-> [k \in Levels |-> OldValue]]

NextMix ==
    \/ \E sol \in Solutions, wm \in AllWaterMasks :
          integrate_tke(sol, wm)
    \/ \E sol \in Solutions, wm \in AllWaterMasks :
          integrate_idemix(sol, wm)

SpecMix == InitMix /\ [][NextMix]_vars

\* ------------------------------------------ calc_topo's specification
InitTopo ==
    /\ SolverIdle /\ WalkerIdle /\ enable_cyclic_x \in BOOLEAN
    /\ tri = TridiagIdle /\ mix = MixIdle /\ coef = CoefIdle
    /\ run = RunIdle /\ LaterIdle
    /\ \E kbot \in TopoKbots : topo = TopoAllocated(kbot)

NextTopo == calc_topo

SpecTopo == InitTopo /\ [][NextTopo]_vars

\* ------------------------- make_coeff_surf_press's specification
InitCoef ==
    /\ SolverIdle /\ WalkerIdle /\ enable_cyclic_x = FALSE
    /\ tri = TridiagIdle /\ mix = MixIdle /\ topo = TopoIdle
    /\ run = RunIdle /\ LaterIdle
    /\ \E in \in CoefInputs : coef = [pc |-> "entered", in |-> in, cf |-> <<>>]

NextCoef == BuildCoefficients

SpecCoef == InitCoef /\ [][NextCoef]_vars

\* ------------------------------------------- calc_grid's specification
InitGrid ==
    /\ SolverIdle /\ WalkerIdle /\ enable_cyclic_x \in BOOLEAN
    /\ tri = TridiagIdle /\ mix = MixIdle /\ topo = TopoIdle
    /\ coef = CoefIdle /\ run = RunIdle
    /\ press = PressIdle /\ idm = IdmIdle
    /\ \E v \in 1..MaxDx, w \in 1..MaxDx, bx \in 1..(nx + 1),
          by \in 1..(ny + 1), bz \in (0 - 1)..(nz - 1), origin \in Origins :
          grid = GridEntered(SpacingArray(nx + 4, 2, nx + 1, v, w, bx),
                             SpacingArray(ny + 4, 2, ny + 1, v, w, by),
                             SpacingArray(nz, 0, nz - 1, v, w, bz), origin)

NextGrid == calc_grid

SpecGrid == InitGrid /\ [][NextGrid]_vars

\* -------------------------------------- solve_pressure's specification
InitPress ==
    /\ SolverIdle /\ WalkerIdle /\ enable_cyclic_x \in BOOLEAN
    /\ tri = TridiagIdle /\ mix = MixIdle /\ topo = TopoIdle
    /\ coef = CoefIdle /\ run = RunIdle
    /\ grid = GridIdle /\ idm = IdmIdle
    /\ \E tl \in TimeLevelTriples, psi \in PsiFields, rho \in RhoColumns,
          maskT \in MaskColumns, p_old \in OldPressures,
          free_surface \in BOOLEAN :
          press = PressEntered(tl, psi, rho, maskT, p_old, free_surface)

NextPress ==
    \/ hydrostatic_pressure
    \/ first_guess
    \/ \E outcome \in {"none", "AttributeError", "UnboundLocalError"} :
          call_congrad(outcome)
    \/ \E d \in Increments, outcome \in {"solving", "solved", "raised"} :
          congrad_pass(d, outcome)
    \/ remove_pressure_gradient

SpecPress == InitPress /\ [][NextPress]_vars

\* -------------------------------- set_idemix_parameter's specification
InitIdm ==
    /\ SolverIdle /\ WalkerIdle /\ enable_cyclic_x = FALSE
    /\ tri = TridiagIdle /\ mix = MixIdle /\ topo = TopoIdle
    /\ coef = CoefIdle /\ run = RunIdle
    /\ grid = GridIdle /\ press = PressIdle
    /\ \E f \in FxaColumns : idm = IdmEntered(f)

NextIdm ==
    \/ idemix_fxa
    \/ idemix_c0
    \/ idemix_v0
    \/ idemix_alpha_c

SpecIdm == InitIdm /\ [][NextIdm]_vars

\* --------------------------------------------- run()'s specification
InitRun ==
    /\ SolverIdle /\ WalkerIdle /\ enable_cyclic_x = FALSE
    /\ tri = TridiagIdle /\ mix = MixIdle /\ topo = TopoIdle
    /\ coef = CoefIdle /\ LaterIdle
    /\ \E choice \in 0..MaxChoice, tke_on \in BOOLEAN, implicit \in BOOLEAN,
          nsteps \in 0..MaxSteps :
          run = [pc |-> "start", err |-> "none", raised_in |-> "none",
                 tke_mxl_choice |-> choice, enable_tke |-> tke_on,
                 enable_implicit_vert_friction |-> implicit,
                 itt |-> 0, enditt |-> nsteps,
                 \* pyom.py lines 28-30, settings.py lines 10-12
                 taum1 |-> 0, tau |-> 1, taup1 |-> 2,
                 forcing_calls |-> 0, tke_calls |-> 0]

NextRun ==
    \/ setup
    \/ step_set_forcing
    \/ set_tke_diffusivities
    \/ step_rest
    \/ run_returns

SpecRun == InitRun /\ [][NextRun]_vars

\* ================================================================= claims

\* C1 (as stated): whenever the divergence test of an iteration holds
\* (|rsnew| > 100 * rs_min), the solve has stopped with an error raised.
C1_DivergenceIsFatal == diverging => pc = "raised"

\* C2 (as stated): when congr_max_iterations iterations complete without the
\* convergence test succeeding the call raises; it never returns normally
\* without having met the tolerance.
C2_ExhaustionIsFatal == Finished => pc = "converged"

\* C3 (as stated): a non-finite (NaN or infinite) step / error estimate
\* computed at iteration n raises at that same iteration.
C3_NonFiniteEstimateIsFatal ==
    (n >= 1 /\ pc # "idle" /\ (~IsFinite(step) \/ ~IsFinite(estimated_error)))
        => pc = "raised"

\* C4: the solve returns as converged at iteration n only with
\* estimated_error < congr_epsilon, the estimate being the raw step for n = 1
\* and the extrapolated value for n > 1; for n > 1 a raw step below the
\* tolerance whose extrapolated estimate is not below it does not stop the
\* solve.
C4_ConvergedOnlyBelowTolerance ==
    /\ pc = "converged" =>
          /\ FLt(estimated_error, congr_epsilon)
          /\ estimated_error =
                IF n = 1 THEN step ELSE ExtrapolatedError(step, step1, n)
    /\ (pc \in {"iterating", "exhausted"} /\ n > 1 /\ FLt(step, congr_epsilon)) =>
          /\ estimated_error = ExtrapolatedError(step, step1, n)
          /\ ~FLt(estimated_error, congr_epsilon)

\* C4 witness: a solve that converged after the first iteration on a nonzero
\* step, i.e. through the extrapolated estimate
C4_Witness == pc = "converged" /\ n > 1 /\ step > 0

\* C5 (as stated): the coefficients are built exactly once and every call,
\* the second and later ones included, applies the operator with them.
C5_EveryCallUsesTheCoefficients == calls >= 1 => (n_built = 1 /\ cf = 1)

\* C6: with enable_cyclic_x, apply_op never reads a direction p whose seam
\* was not copied after the last assignment to p, and the direction the next
\* iteration will read is seam-consistent.
C6_NoStaleSeamRead ==
    enable_cyclic_x =>
        /\ ~stale_read
        /\ (pc = "iterating" => p_seam = "fresh")

\* C6 witness: cyclic run in which the operator was applied to an updated
\* direction (second iteration or later)
C6_Witness == enable_cyclic_x /\ n >= 2 /\ calls = 1

\* C7: with the all-zero operator the solve neither converges nor returns,
\* it leaves the loop within congr_max_iterations iterations, and it ends by
\* the RuntimeError of the NaN / diverging path.
C7_ZeroOperatorFails ==
    operator = "zero" =>
        /\ ~Finished
        /\ n <= congr_max_iterations
        /\ (pc = "iterating" => n < congr_max_iterations)
        /\ (pc = "raised" => err = "RuntimeError" /\ IsNaN(estimated_error))

\* C7 witness: a solve with the all-zero operator that has ended
C7_Witness == operator = "zero" /\ pc = "raised" /\ n >= 1

\* ------------------------------------------------- claims about the walk
\* the walk of the island just processed has returned
WalkEnded == wpc = "island" /\ isle > 0

HasStartPair(map) ==
    \E i \in 0..(nx + 1), j \in 1..(ny + 1) :
        \/ (map[<<i, j>>] = 1 /\ map[<<i, j + 1>>] = 0 - 1)
        \/ (map[<<i, j>>] = 0 - 1 /\ map[<<i, j + 1>>] = 1)

\* the pair (ahead, ahead-right) is one of the four recognised ones
Recognised(a, r) == a \in {1, 0 - 1} /\ r \in {1, 0 - 1}

\* C9: (a) an island whose map holds no land / perimeter pair, and (b) a walk
\* step that meets an unrecognised pair of map values, end the routine with
\* an exception: the island counter, the walker and the masks of the walk
\* are left as they were, and no step or island follows.
C9_TopologyErrorsAbort ==
    /\ [][ /\ (wpc = "island" /\ ~HasStartPair(boundary_map'))
               => (wpc' = "raised" /\ isle' = isle
                   /\ werr' = "found no starting point for line integral")
           /\ (wpc = "walking" /\ InRange(Ahead(ij, Dir))
                 /\ InRange(AheadRight(ij, Dir))
                 /\ ~Recognised(boundary_map[Wrap(Ahead(ij, Dir))],
                                boundary_map[Wrap(AheadRight(ij, Dir))]))
               => (wpc' = "raised"
                   /\ werr' = "unknown situation or lost track"
                   /\ UNCHANGED <<isle, ij, Dir, walk_n, steps, boundary_mask,
                                  line_dir_north_mask, line_dir_south_mask,
                                  line_dir_east_mask, line_dir_west_mask>>)
         ]_vars
    /\ [](wpc = "raised" => ~ENABLED NextWalk)

\* C9 witness: the walk of an island was lost while another island was
\* still to be processed
C9_Witness ==
    /\ wpc = "raised" /\ werr = "unknown situation or lost track"
    /\ isle + 1 < nisle

\* C10: on the map of a single L x L square island away from the domain
\* edges the walk does not fail, is not back at its start before 4*L edges,
\* and returns to the start after exactly 4*L edges (n+1 = 4*L points).
C10_SquareWalkTakes4L ==
    \A L \in 1..MaxL :
        boundary_map \in SquareMapsOf[L] =>
            /\ wpc # "raised"
            /\ (wpc = "walking" => steps < 4 * L)
            /\ (WalkEnded => /\ steps = 4 * L
                             /\ walk_n + 1 = 4 * L
                             /\ ij = startPos)

\* C10 witness: the walk round the largest square island has returned
C10_Witness == WalkEnded /\ boundary_map \in SquareMapsOf[MaxL]
\* columns next to the periodic seam: the first and the last interior column
\* and the ghost columns the search can reach
SeamColumns == {0 - 1, 0, 1, 2, nx + 1}

\* the column in which the start search found its pair
PairColumn == IF startDir = east THEN startPos[1] + 1 ELSE startPos[1]

\* column i holds a land / perimeter pair in the rows the search scans
HasPairInColumn(map, i) ==
    \E j \in 1..(ny + 1) :
        \/ (map[<<i, j>>] = 1 /\ map[<<i, j + 1>>] = 0 - 1)
        \/ (map[<<i, j>>] = 0 - 1 /\ map[<<i, j + 1>>] = 1)

\* position of column i in the order nx/2+1, ..., nx+1, nx/2, ..., 0
ScanRank(i) == IF i > nx \div 2 THEN i - (nx \div 2)
               ELSE (nx + 1 - (nx \div 2)) + ((nx \div 2) - i) + 1

\* a walk has been started on the current map
WalkStarted == wpc = "walking" \/ WalkEnded

C12_ReturnsTheSolution == tri.pc # "raised"

\* ------------------------------------ claims about the mixing step
\* the system of the current state has been assembled
Assembled == mix.pc \in {"tke", "idemix"}

\* the diagonal of row k as the solve uses it: b_edge in row ks
Diagonal(k) == IF k = mix.ks THEN mix.b_tri_edge[k] ELSE mix.b_tri[k]

\* |b[k]| > |a[k]| + |c[k]|
RowDominant(k) ==
    RLt(RAdd(RAbs(mix.a_tri[k]), RAbs(mix.c_tri[k])), RAbs(Diagonal(k)))

\* C13 (as stated): every row k >= ks of the systems assembled by
\* integrate_tke and integrate_idemix, b_edge taken in row ks, is strictly
\* diagonally dominant.
C13_RowsDiagonallyDominant ==
    Assembled => \A k \in Levels : k >= mix.ks => RowDominant(k)

\* C13 (amended): in a column with a wet level every pivot of the sweep from
\* row ks is at least 1; the rows above ks of the integrate_tke system are
\* strictly diagonally dominant, and so is its row ks once the sub-diagonal
\* entry, which the sweep does not use, is left out; a row of the
\* integrate_idemix system is strictly diagonally dominant where c0 at the
\* neighbouring levels does not exceed c0 at the row's level.
C13_PivotsAtLeastOne ==
    (Assembled /\ mix.ks \in Levels) =>
        /\ \A k \in Levels : k >= mix.ks => ~RLt(Pivot(mix, k), RInt(1))
        /\ RLt(RAbs(mix.c_tri[mix.ks]), RAbs(Diagonal(mix.ks)))
              \/ (mix.pc = "idemix" /\ mix.ks < nz - 1
                    /\ RLt(mix.col.c0[mix.ks], mix.col.c0[mix.ks + 1]))
        /\ \A k \in Levels : k > mix.ks =>
              \/ RowDominant(k)
              \/ /\ mix.pc = "idemix"
                 /\ \/ RLt(mix.col.c0[k], mix.col.c0[k - 1])
                    \/ (k < nz - 1 /\ RLt(mix.col.c0[k], mix.col.c0[k + 1]))

\* C13 witness: an integrate_idemix system with a row above ks that is not
\* diagonally dominant
C13_Witness ==
    /\ mix.pc = "idemix" /\ mix.ks \in Levels
    /\ \E k \in Levels : k > mix.ks /\ ~RowDominant(k)

\* the taup1 field written by the routine that ran
WrittenField == IF mix.pc = "tke" THEN mix.tke_taup1 ELSE mix.E_iw_taup1

\* C14: the write-back of integrate_tke / integrate_idemix puts the solution
\* into the taup1 field exactly at the entries where water_mask is true;
\* where water_mask is false, and so at every level of a column reported
\* fully dry, the field keeps the value it had before.
C14_WriteBackOnlyWhereWet ==
    Assembled =>
        /\ \A k \in Levels :
              WrittenField[k] = IF mix.water_mask[k] THEN mix.sol[k]
                                ELSE OldValue
        /\ (\A k \in Levels : ~mix.water_mask[k])
              => WrittenField = [k \in Levels |-> OldValue]

\* C14 witness: a column whose lower levels are dry and whose upper levels
\* are wet has been written
C14_Witness ==
    /\ Assembled
    /\ \E k \in Levels : ~mix.water_mask[k] /\ WrittenField[k] = OldValue
    /\ \E k \in Levels : mix.water_mask[k] /\ WrittenField[k] # OldValue

\* ------------------------------------------- claims about calc_topo
\* the call of calc_topo is over
TopoEnded == topo.pc \notin {"idle", "entered"}

\* the tracer mask the claims describe: 1 exactly where kbot # 0 and
\* kbot <= k
TracerMask(kbot, c, k) == IF kbot[c] # 0 /\ kbot[c] <= k THEN 1 ELSE 0

Min2(x, y) == IF y < x THEN y ELSE x

\* C15 (as stated): after calc_topo maskT is 1 exactly where kbot # 0 and
\* kbot <= k, maskU is the minimum of maskT at the cell and at its eastern
\* neighbour, and maskV that of the cell and its northern neighbour.
C15_UVMasksAreMinOfTracerMask ==
    TopoEnded =>
        \A c \in Cells, k \in TopoLevels :
            /\ topo.maskT[c][k] = TracerMask(topo.kbot, c, k)
            /\ c[1] + 1 < NXA =>
                  topo.maskU[c][k] =
                      Min2(topo.maskT[c][k], topo.maskT[<<c[1] + 1, c[2]>>][k])
            /\ c[2] + 1 < NYA =>
                  topo.maskV[c][k] =
                      Min2(topo.maskT[c][k], topo.maskT[<<c[1], c[2] + 1>>][k])

\* a mask that is dry at a level is dry at every deeper level
MonotonicInDepth(mask) ==
    \A c \in Cells, k \in TopoLevels, kk \in TopoLevels :
        (mask[c][k] = 0 /\ kk < k) => mask[c][kk] = 0

\* C16 (as stated): calc_topo produces the five masks, and each of them is
\* monotonic in depth.
C16_MasksMonotonicInDepth ==
    TopoEnded =>
        /\ topo.err = "none"
        /\ MonotonicInDepth(topo.maskT) /\ MonotonicInDepth(topo.maskU)
        /\ MonotonicInDepth(topo.maskV) /\ MonotonicInDepth(topo.maskZ)
        /\ MonotonicInDepth(topo.maskW)

\* depth at the U point east of cell c for unit layer thickness: the number
\* of levels wet in both tracer columns
DepthU(kbot, c) ==
    Cardinality({k \in TopoLevels :
        TracerMask(kbot, c, k) = 1
            /\ TracerMask(kbot, <<c[1] + 1, c[2]>>, k) = 1})

\* C17 (as stated): after calc_topo on all-zero hur, hu is the depth of the
\* column at the U point and hur is 1/hu where hu # 0 and 0 where hu = 0.
C17_ReciprocalDepthWhereWet ==
    TopoEnded =>
        \A c \in Cells : c[1] + 1 < NXA =>
            /\ RInt(topo.hu[c]) = RInt(DepthU(topo.kbot, c))
            /\ IF topo.hu[c] # 0
               THEN RMul(RInt(topo.hur[c]), RInt(topo.hu[c])) = RInt(1)
               ELSE topo.hur[c] = 0

\* ------------------------------ claims about make_coeff_surf_press
CoefBuilt == coef.pc = "built"

\* the cells both loops reach
LoopCells == (is_pe..ie_pe) \X (js_pe..je_pe)

\* C18 (as stated): for any positive spacings and metric factors the
\* coefficient coupling a cell to its eastern neighbour equals the one
\* coupling that neighbour back to the cell, and likewise north / south.
C18_StencilSymmetric ==
    CoefBuilt =>
        \A c \in LoopCells :
            /\ <<c[1] + 1, c[2]>> \in LoopCells =>
                  coef.cf[c][<<2, 1>>] = coef.cf[<<c[1] + 1, c[2]>>][<<0, 1>>]
            /\ <<c[1], c[2] + 1>> \in LoopCells =>
                  coef.cf[c][<<1, 2>>] = coef.cf[<<c[1], c[2] + 1>>][<<1, 0>>]

\* C19: in the stencil built, an off-diagonal coefficient is zero when the
\* cell or the neighbour it links to is dry at the surface, and at a dry
\* cell all five coefficients, the centre with its free-surface term
\* included, are zero.
C19_DryFacesUncoupled ==
    CoefBuilt =>
        \A c \in Cells :
            LET m(d) == coef.in.maskM[<<c[1] + d[1], c[2] + d[2]>>]
                off(e) == <<e[1] - 1, e[2] - 1>>
            IN  /\ \A e \in {<<2, 1>>, <<0, 1>>, <<1, 2>>, <<1, 0>>} :
                       (c \in LoopCells /\ (m(<<0, 0>>) = 0 \/ m(off(e)) = 0))
                           => coef.cf[c][e] = RInt(0)
                /\ coef.in.maskM[c] = 0 =>
                       \A e \in (0..2) \X (0..2) : coef.cf[c][e] = RInt(0)

\* C19 witness: a stencil built with a free surface on a mask where a wet
\* cell with a nonzero eastern coupling also has a dry western neighbour
C19_Witness ==
    /\ CoefBuilt /\ coef.in.enable_free_surface
    /\ \E c \in LoopCells :
          /\ coef.in.maskM[c] = 1
          /\ coef.in.maskM[<<c[1] - 1, c[2]>>] = 0
          /\ coef.cf[c][<<2, 1>>] # RInt(0)
          /\ coef.cf[c][<<0, 1>>] = RInt(0)

\* ------------------------------------------------- claims about run()
\* C20 (as stated): a tke_mxl_choice other than 1 or 2 is rejected by a
\* fatal error in setup(): the run never gets past setup, and no per-step
\* set_forcing or set_tke_diffusivities call is made.
C20_BadChoiceRejectedInSetup ==
    run.pc # "idle" /\ run.tke_mxl_choice \notin {1, 2} =>
        /\ run.pc \in {"start", "raised"}
        /\ run.pc = "raised" => run.raised_in = "setup"
        /\ run.forcing_calls = 0 /\ run.tke_calls = 0

\* ---------------------------------------------------------------- C21
GridDone == grid.pc = "done"

Positive(a) == \A k \in DOMAIN a : RLt(RInt(0), a[k])

Increasing(a) ==
    \A k \in DOMAIN a : (k + 1) \in DOMAIN a => RLt(a[k], a[k + 1])

\* C21: for every strictly positive dxt, dyt and dzt, after calc_grid the
\* derived spacings dxu, dyu and dzw are strictly positive at every index
\* and the coordinates xt, xu, yt, yu (ghost cells included, also when
\* enable_cyclic_x is set), zt and zw are strictly increasing in the index.
C21_SpacingsPositiveCoordinatesIncreasing ==
    GridDone =>
        /\ Positive(grid.dxu) /\ Positive(grid.dyu) /\ Positive(grid.dzw)
        /\ Increasing(grid.xt) /\ Increasing(grid.xu)
        /\ Increasing(grid.yt) /\ Increasing(grid.yu)
        /\ Increasing(grid.zt) /\ Increasing(grid.zw)

\* ---------------------------------------------------------------- C28
PeriodicImage(a) ==
    \A i \in 1..2 : /\ a[nx + 1 + i] = a[1 + i]
                    /\ a[2 - i] = a[nx + 2 - i]

\* C28: with enable_cyclic_x set, after calc_grid every ghost entry of dxt,
\* dxu, xt and xu equals the entry of the same array at its periodic-image
\* interior index.
C28_GhostEntriesArePeriodicImages ==
    (GridDone /\ enable_cyclic_x) =>
        /\ PeriodicImage(grid.dxt) /\ PeriodicImage(grid.dxu)
        /\ PeriodicImage(grid.xt) /\ PeriodicImage(grid.xu)

\* ---------------------------------------------------------------- C22
\* an iteration of the loop after the first one of the solve
LaterIteration == pc = "iterating" /\ n >= 1 /\ n' = n + 1

\* C22: the running minimum rs_min used by the divergence test is the
\* minimum of |rsnew| over all iterations of the solve so far, iteration 2
\* included (each later iteration folds its rsnew into rs_min), and the
\* divergence test is evaluated at every iteration after the first.
C22_RunningMinimumCoversEveryIteration ==
    [][LaterIteration =>
          /\ rs_min' = PyMin(rs_min, rsold')
          /\ diverging' = FGt(rsold', FMul(DivergenceFactor, rs_min'))]_vars

\* ---------------------------------------------------------------- C23
\* the number of time steps completed
StepsDone == run.itt

TimeLevels == <<run.taum1, run.tau, run.taup1>>

\* C23: after any number of time steps the pointers (taum1, tau, taup1) are
\* pairwise distinct and a permutation of the three buffer indices; each
\* step maps (taum1, tau, taup1) to (tau, taup1, old taum1), so after k
\* steps the triple is the initial one rotated k times and it is the
\* initial one again after exactly three steps.
C23_TimeLevelsRotate ==
    run.pc \in {"loop", "forcing_set", "diffusivities_set", "returned"} =>
        /\ {run.taum1, run.tau, run.taup1} = {0, 1, 2}
        /\ TimeLevels = <<StepsDone % 3, (StepsDone + 1) % 3,
                          (StepsDone + 2) % 3>>
        /\ (TimeLevels = <<0, 1, 2>>) <=> (StepsDone % 3 = 0)

C23_Witness ==
    run.pc = "returned" /\ StepsDone = 3 /\ TimeLevels = <<0, 1, 2>>

\* ---------------------------------------------------------------- C24
\* C24: solve_pressure and congrad_surf_press write only the taup1 slice of
\* psi: psi[tau] and psi[taum1] are as on entry at every point of the call,
\* on the converged path and on every failure path, and the solve starts
\* from the first guess psi[taup1] = 2*psi[tau] - psi[taum1].
C24_OnlyTaup1Written ==
    press.pc # "idle" =>
        /\ press.psi[press.tau] = press.psi_entry[press.tau]
        /\ press.psi[press.taum1] = press.psi_entry[press.taum1]
        /\ (press.pc \in {"guessed", "solving"} /\ press.n = 0) =>
               press.psi[press.taup1] =
                   2 * press.psi_entry[press.tau]
                     - press.psi_entry[press.taum1]

C24_Witness ==
    /\ press.pc = "returned" /\ press.n >= 2
    /\ press.psi[press.taup1] # press.psi_entry[press.taup1]
    /\ press.psi_entry[press.tau] # press.psi_entry[press.taum1]

\* ---------------------------------------------------------------- C27
HydroDone == press.pc \notin {"idle", "entered"}

\* the right-hand side of the recursion at level k
HydroRecursion(k) ==
    RMul(press.maskT[k],
         RAdd(press.p_hydro[k + 1],
              RMul(RMul(RMul(Half, RAdd(press.rho[k + 1], press.rho[k])),
                        RDiv(grav, rho_0)), press.dzw[k])))

\* C27: after the hydrostatic-pressure step, for every level k from nz-2
\* down to and including the bottom level 0, p_hydro[k] = maskT[k] *
\* (p_hydro[k+1] + 0.5*(rho[k+1] + rho[k]) * (grav/rho_0) * dzw[k]): every
\* level, the bottom one included, is recomputed on each call.
C27_EveryLevelRecomputed ==
    HydroDone => \A k \in 0..(nz - 2) : press.p_hydro[k] = HydroRecursion(k)

\* ---------------------------------------------------------------- C25
\* C25: for every boundary map with values in {1, -1, 0} and every start
\* found by the search the walk ends after finitely many passes, back at
\* the start or with the topology error: it does not go on through more
\* passes than the walker has states (a deterministic walker that does
\* repeats a state and never ends), and it never indexes outside the
\* (nx+4) x (ny+4) arrays.
C25_WalkEndsInsideTheArrays ==
    /\ (wpc = "walking" => steps <= WalkerStates)
    /\ werr # "IndexError"

\* ---------------------------------------------------------------- C26
DirectionMasks ==
    line_dir_north_mask \cup line_dir_south_mask
        \cup line_dir_east_mask \cup line_dir_west_mask

\* a pass of the walk that travels an edge (no exception before the move)
EdgeTravelled == wpc = "walking" /\ steps' = steps + 1

\* the four masks after flagging the cell `c` in the mask of direction d
FlaggedOnly(d, c) ==
    /\ line_dir_north_mask' =
           line_dir_north_mask \cup (IF d = north THEN {c} ELSE {})
    /\ line_dir_south_mask' =
           line_dir_south_mask \cup (IF d = south THEN {c} ELSE {})
    /\ line_dir_east_mask' =
           line_dir_east_mask \cup (IF d = east THEN {c} ELSE {})
    /\ line_dir_west_mask' =
           line_dir_west_mask \cup (IF d = west THEN {c} ELSE {})

\* C26: at every point of the walk for an island every cell flagged in one
\* of the four direction masks is also flagged in boundary_mask, and each
\* pass of the walk flags exactly one direction mask, the one of the
\* direction travelled after the turn decision, at the cell the walker
\* leaves.
C26_DirectionMasksWithinBoundary ==
    /\ [](DirectionMasks \subseteq boundary_mask)
    /\ [][EdgeTravelled =>
             /\ Dir' \in {north, south, east, west}
             /\ preshift' = <<ij[1] + Dir'[1], ij[2] + Dir'[2]>>
             /\ FlaggedOnly(Dir', Wrap(ij))]_vars

C26_Witness ==
    /\ wpc = "walking" /\ steps >= 3
    /\ line_dir_north_mask # {} /\ line_dir_east_mask # {}
    /\ DirectionMasks \subseteq boundary_mask

\* ---------------------------------------------------------------- C29
AtLeastThree(x) == \A k \in DOMAIN x : x[k] >= 3

StencilSum(c) ==
    RAdd(coef.cf[c][<<1, 1>>],
         RAdd(RAdd(coef.cf[c][<<2, 1>>], coef.cf[c][<<0, 1>>]),
              RAdd(coef.cf[c][<<1, 2>>], coef.cf[c][<<1, 0>>])))

\* C30: with enable_free_surface off the five coefficients of every interior
\* cell sum to zero (the centre is minus the sum of the four neighbour
\* coefficients); with enable_free_surface on the sum at cell (i,j) is
\* -maskM[i,j] / (grav * dt_mom^2).
C30_StencilSumsToZero ==
    CoefBuilt =>
        \A c \in LoopCells :
            StencilSum(c) =
                IF coef.in.enable_free_surface
                THEN RDiv(RInt(0 - coef.in.maskM[c]),
                          RMul(grav, RMul(dt_mom, dt_mom)))
                ELSE RInt(0)

C30_Witness ==
    /\ CoefBuilt /\ ~coef.in.enable_free_surface
    /\ \E c \in LoopCells :
          /\ \A e \in {<<2, 1>>, <<0, 1>>, <<1, 2>>, <<1, 0>>} :
                 RLt(RInt(0), coef.cf[c][e])
          /\ coef.cf[c][<<2, 1>>] # coef.cf[c][<<0, 1>>]
          /\ RLt(coef.cf[c][<<1, 1>>], RInt(0))

====
